---- MODULE Spec2Model ----
(***************************************************************************)
(* A model of the CNT configuration library (src/minecraft/lib/config.hpp): *)
(* the tagged value ConfigObject with its shared containers, the           *)
(* recursive-descent parser, the writer, and the Config document.          *)
(*                                                                         *)
(* Text is a sequence of one-character strings; positions are 0-based as   *)
(* in the source (At(c, pos) reads content[pos]).  Object and Array        *)
(* payloads are std::shared_ptr handles: a handle is an index into `heap`, *)
(* and 0 is the null pointer.                                              *)
(***************************************************************************)
EXTENDS Integers, Sequences, FiniteSets, TLC

VARIABLES
    heap,       \* the shared containers: a sequence of cells, indexed by handle
    loc,        \* the caller's ConfigObject variables: [Locals -> value]
    data,       \* Config::data, the top-level mapping (key -> value)
    filepath,   \* Config::filepath: <<>> (nullopt) or <<path>>
    opened,     \* Config::opened
    files,      \* the file system: [Paths -> text or Unreadable]
    text,       \* the input of the parser / the output of the writer
    res,        \* the result record of the last parse or round trip
    last,       \* the operation executed last, with its arguments and outcome
    version     \* the Version objects: [after26 |-> VersionData, before26 |-> VersionData]

vars == <<heap, loc, data, filepath, opened, files, text, res, last, version>>

(***************************************************************************)
(* Bounds of the model.                                                    *)
(***************************************************************************)
MaxHandles == 2     \* live containers in the value and document specifications
MaxIndex == 1       \* largest index passed to operator[](size_t)
MaxLen == 4         \* longest text handed to the parser

Locals == {"x", "y"}
Keys == {<<"a">>, <<"b">>}

(***************************************************************************)
(* ConfigType and the alternatives of the std::variant ConfigValue.        *)
(***************************************************************************)
ConfigType ==
    {"NONE", "NUMBER", "FLOAT", "BOOLEAN", "STRING", "CHARACTER", "OBJECT", "ARRAY"}

\* The variant alternative each constructor stores for a tag.
AltOf(type) ==
    CASE type = "NONE" -> "monostate"
      [] type = "NUMBER" -> "long long"
      [] type = "FLOAT" -> "double"
      [] type = "BOOLEAN" -> "bool"
      [] type = "STRING" -> "string"
      [] type = "CHARACTER" -> "char"
      [] type = "OBJECT" -> "map_ptr"
      [] type = "ARRAY" -> "vec_ptr"

\* A ConfigObject: the tag `type`, the active alternative `alt` of `value`, and
\* one field per alternative (only the active one is meaningful; the others
\* keep these defaults).  A double is the decimal m * 10^e, m without a
\* trailing zero.
Blank ==
    [type |-> "NONE", alt |-> "monostate", num |-> 0, flt |-> [m |-> 0, e |-> 0],
     bool |-> FALSE, str |-> <<>>, chr |-> "NUL", ptr |-> 0]

ConfigObject_None == Blank
ConfigObject_ll(val) == [Blank EXCEPT !.type = "NUMBER", !.alt = "long long", !.num = val]
ConfigObject_double(val) == [Blank EXCEPT !.type = "FLOAT", !.alt = "double", !.flt = val]
ConfigObject_bool(val) == [Blank EXCEPT !.type = "BOOLEAN", !.alt = "bool", !.bool = val]
ConfigObject_string(val) == [Blank EXCEPT !.type = "STRING", !.alt = "string", !.str = val]
ConfigObject_char(val) == [Blank EXCEPT !.type = "CHARACTER", !.alt = "char", !.chr = val]

(***************************************************************************)
(* The heap of shared containers.                                          *)
(***************************************************************************)
EmptyMap == [k \in {} |-> Blank]
FreeCell == [kind |-> "free", map |-> EmptyMap, vec |-> <<>>]
MapCell(m) == [kind |-> "map", map |-> m, vec |-> <<>>]
VecCell(v) == [kind |-> "vec", map |-> EmptyMap, vec |-> v]

MapPut(m, k, v) == [j \in DOMAIN m \cup {k} |-> IF j = k THEN v ELSE m[j]]
MapErase(m, k) == [j \in DOMAIN m \ {k} |-> m[j]]

Live(h) == {i \in 1..Len(h) : h[i].kind # "free"}

\* std::make_shared: the handle of a fresh container (the lowest unused one).
FreshHandle(h) ==
    IF \E i \in 1..Len(h) : h[i].kind = "free"
    THEN CHOOSE i \in 1..Len(h) : h[i].kind = "free" /\ \A j \in 1..(i - 1) : h[j].kind # "free"
    ELSE Len(h) + 1

HeapSet(h, i, cell) == IF i = Len(h) + 1 THEN Append(h, cell) ELSE [h EXCEPT ![i] = cell]

\* ConfigObject(const std::map&) and ConfigObject(const std::vector&): make_shared
\* of a copy of the argument.  The result carries the new heap.
ConfigObject_map(h, obj) ==
    [heap |-> HeapSet(h, FreshHandle(h), MapCell(obj)),
     val |-> [Blank EXCEPT !.type = "OBJECT", !.alt = "map_ptr", !.ptr = FreshHandle(h)]]

ConfigObject_vector(h, arr) ==
    [heap |-> HeapSet(h, FreshHandle(h), VecCell(arr)),
     val |-> [Blank EXCEPT !.type = "ARRAY", !.alt = "vec_ptr", !.ptr = FreshHandle(h)]]

\* shared_ptr ownership: a container lives as long as some ConfigObject that can
\* still be named holds its handle.  Release frees every other cell.
Refs(v) == IF v.ptr # 0 THEN {v.ptr} ELSE {}

CellRefs(cell) ==
    UNION {Refs(cell.map[k]) : k \in DOMAIN cell.map}
        \cup UNION {Refs(cell.vec[i]) : i \in 1..Len(cell.vec)}

RECURSIVE Closure(_, _)
Closure(h, S) ==
    LET T == S \cup UNION {CellRefs(h[i]) : i \in S \cap (1..Len(h))}
    IN  IF T = S THEN S ELSE Closure(h, T)

RECURSIVE Trim(_)
Trim(h) ==
    IF Len(h) > 0 /\ h[Len(h)].kind = "free" THEN Trim(SubSeq(h, 1, Len(h) - 1)) ELSE h

Release(h, roots) ==
    LET R == Closure(h, UNION {Refs(v) : v \in roots})
    IN  Trim([i \in 1..Len(h) |-> IF i \in R THEN h[i] ELSE FreeCell])

(***************************************************************************)
(* ConfigObject accessors.                                                 *)
(***************************************************************************)
is_array(v) == v.type = "ARRAY"
is_object(v) == v.type = "OBJECT"

\* size(): Array -> elements, Object -> keys, String -> length, else 0.
size(h, v) ==
    IF v.type = "ARRAY" THEN Len(h[v.ptr].vec)
    ELSE IF v.type = "OBJECT" THEN Cardinality(DOMAIN h[v.ptr].map)
    ELSE IF v.type = "STRING" THEN Len(v.str)
    ELSE 0

has_key(h, v, key) ==
    IF v.type # "OBJECT" THEN FALSE ELSE key \in DOMAIN h[v.ptr].map

\* at(key) / at(index): [exc, val]; exc names the exception thrown, "" for none.
at_key(h, v, key) ==
    IF v.type # "OBJECT" THEN [exc |-> "Not an object", val |-> Blank]
    ELSE IF v.alt # "map_ptr" THEN [exc |-> "bad_variant_access", val |-> Blank]
    ELSE IF key \notin DOMAIN h[v.ptr].map THEN [exc |-> "out_of_range", val |-> Blank]
    ELSE [exc |-> "", val |-> h[v.ptr].map[key]]

at_index(h, v, index) ==
    IF v.type # "ARRAY" THEN [exc |-> "Not an array", val |-> Blank]
    ELSE IF v.alt # "vec_ptr" THEN [exc |-> "bad_variant_access", val |-> Blank]
    ELSE IF index >= Len(h[v.ptr].vec) THEN [exc |-> "out_of_range", val |-> Blank]
    ELSE [exc |-> "", val |-> h[v.ptr].vec[index + 1]]

\* std::vector::resize(n): keeps the first elements, pads with ConfigObject().
resize(vec, n) ==
    [i \in 1..n |-> IF i <= Len(vec) THEN vec[i] ELSE ConfigObject_None]

\* A faulty operator[](const std::string&): the test `type != OBJECT` is lost, so
\* every keyed access starts from a fresh empty Object.
operator_index_key_reset(h, v, key) ==
    [heap |-> HeapSet(h, FreshHandle(h), MapCell(MapPut(EmptyMap, key, ConfigObject_None))),
     val |-> [Blank EXCEPT !.type = "OBJECT", !.alt = "map_ptr", !.ptr = FreshHandle(h)],
     exc |-> ""]

\* A faulty operator[](const std::string&): a non-Object is retagged OBJECT but
\* its payload is left as it was.
operator_index_key_retag(h, v, key) ==
    IF v.type # "OBJECT"
    THEN [heap |-> h, val |-> [v EXCEPT !.type = "OBJECT"], exc |-> ""]
    ELSE IF key \in DOMAIN h[v.ptr].map
    THEN [heap |-> h, val |-> v, exc |-> ""]
    ELSE [heap |-> [h EXCEPT ![v.ptr].map = MapPut(@, key, ConfigObject_None)],
          val |-> v, exc |-> ""]

\* operator[](const std::string&): [heap, val, exc]; val is *this afterwards and
\* the slot referred to is heap[val.ptr].map[key].
operator_index_key(h, v, key) ==
    LET fresh == v.type # "OBJECT"
        v1 == IF fresh
              THEN [Blank EXCEPT !.type = "OBJECT", !.alt = "map_ptr", !.ptr = FreshHandle(h)]
              ELSE v
        h1 == IF fresh THEN HeapSet(h, FreshHandle(h), MapCell(EmptyMap)) ELSE h
    IN  IF v1.alt # "map_ptr"
        THEN [heap |-> h1, val |-> v1, exc |-> "bad_variant_access"]
        ELSE IF key \in DOMAIN h1[v1.ptr].map
        THEN [heap |-> h1, val |-> v1, exc |-> ""]
        ELSE [heap |-> [h1 EXCEPT ![v1.ptr].map = MapPut(@, key, ConfigObject_None)],
              val |-> v1, exc |-> ""]

\* A faulty operator[](size_t): the test `index >= arr.size()` is lost, so every
\* indexed access resizes the Array to index + 1.
operator_index_at_resize(h, v, index) ==
    LET fresh == v.type # "ARRAY"
        v1 == IF fresh
              THEN [Blank EXCEPT !.type = "ARRAY", !.alt = "vec_ptr", !.ptr = FreshHandle(h)]
              ELSE v
        h1 == IF fresh THEN HeapSet(h, FreshHandle(h), VecCell(<<>>)) ELSE h
    IN  [heap |-> [h1 EXCEPT ![v1.ptr].vec = resize(@, index + 1)], val |-> v1, exc |-> ""]

\* operator[](size_t): as above; the slot is heap[val.ptr].vec[index + 1].
operator_index_at(h, v, index) ==
    LET fresh == v.type # "ARRAY"
        v1 == IF fresh
              THEN [Blank EXCEPT !.type = "ARRAY", !.alt = "vec_ptr", !.ptr = FreshHandle(h)]
              ELSE v
        h1 == IF fresh THEN HeapSet(h, FreshHandle(h), VecCell(<<>>)) ELSE h
    IN  IF v1.alt # "vec_ptr"
        THEN [heap |-> h1, val |-> v1, exc |-> "bad_variant_access"]
        ELSE IF index >= Len(h1[v1.ptr].vec)
        THEN [heap |-> [h1 EXCEPT ![v1.ptr].vec = resize(@, index + 1)],
              val |-> v1, exc |-> ""]
        ELSE [heap |-> h1, val |-> v1, exc |-> ""]

\* A faulty copy: deep copy of the container instead of a copy of the handle.
copy_deep(h, v) ==
    IF v.ptr = 0 THEN [heap |-> h, val |-> v]
    ELSE [heap |-> HeapSet(h, FreshHandle(h), h[v.ptr]), val |-> [v EXCEPT !.ptr = FreshHandle(h)]]

\* The implicit copy constructor / copy assignment of ConfigObject: the tag and
\* the variant are copied member-wise, so a shared_ptr alternative copies the
\* handle.
copy(h, v) == [heap |-> h, val |-> v]

(***************************************************************************)
(* Characters and text.                                                    *)
(***************************************************************************)
Digit == {"0", "1", "2", "3", "4", "5", "6", "7", "8", "9"}
Letter ==
    {"a", "b", "c", "d", "e", "f", "g", "h", "i", "j", "k", "l", "m", "n", "o", "p", "q",
     "r", "s", "t", "u", "v", "w", "x", "y", "z", "A", "B", "C", "D", "E", "F", "G", "H",
     "I", "J", "K", "L", "M", "N", "O", "P", "Q", "R", "S", "T", "U", "V", "W", "X", "Y", "Z"}

isspace(ch) == ch \in {" ", "\t", "\n", "\r", "\f", "VT"}
isdigit(ch) == ch \in Digit
isalnum(ch) == ch \in Digit \cup Letter

At(c, pos) == c[pos + 1]

\* std::string::substr(pos, n), for pos <= size.
substr(c, pos, n) == SubSeq(c, pos + 1, IF pos + n > Len(c) THEN Len(c) ELSE pos + n)

DigitValue(ch) ==
    CASE ch = "0" -> 0 [] ch = "1" -> 1 [] ch = "2" -> 2 [] ch = "3" -> 3 [] ch = "4" -> 4
      [] ch = "5" -> 5 [] ch = "6" -> 6 [] ch = "7" -> 7 [] ch = "8" -> 8 [] ch = "9" -> 9

DigitChar(d) == <<"0", "1", "2", "3", "4", "5", "6", "7", "8", "9">>[d + 1]

RECURSIVE DigitsValue(_)
DigitsValue(ds) ==
    IF ds = <<>> THEN 0
    ELSE 10 * DigitsValue(SubSeq(ds, 1, Len(ds) - 1)) + DigitValue(ds[Len(ds)])

\* The length of the run of digits of tok that starts at index i (1-based).
RECURSIVE DigitRun(_, _)
DigitRun(tok, i) ==
    IF i <= Len(tok) /\ isdigit(tok[i]) THEN 1 + DigitRun(tok, i + 1) ELSE 0

RECURSIVE Pow10(_)
Pow10(n) == IF n = 0 THEN 1 ELSE 10 * Pow10(n - 1)

\* A decimal m * 10^e without trailing zeros in m (0 is m = 0, e = 0).
RECURSIVE Normal(_, _)
Normal(m, e) ==
    IF m = 0 THEN [m |-> 0, e |-> 0]
    ELSE IF m % 10 = 0 THEN Normal(m \div 10, e + 1)
    ELSE [m |-> m, e |-> e]

\* std::stoll: an optional sign and the longest run of digits; what follows the
\* digits is ignored; no digit at all is std::invalid_argument.  (A token of the
\* lengths modelled cannot leave the range of long long.)
stoll(tok) ==
    LET start == IF tok # <<>> /\ tok[1] \in {"+", "-"} THEN 2 ELSE 1
        n == DigitRun(tok, start)
        mag == DigitsValue(SubSeq(tok, start, start + n - 1))
    IN  IF n = 0 THEN [ok |-> FALSE, val |-> 0]
        ELSE [ok |-> TRUE, val |-> IF tok[1] = "-" THEN 0 - mag ELSE mag]

\* The number of decimal digits of n >= 0.
RECURSIVE NumDigits(_)
NumDigits(n) == IF n < 10 THEN 1 ELSE 1 + NumDigits(n \div 10)

\* std::stod: an optional sign, digits with an optional point (one digit at
\* least), and an exponent when e/E is followed by an optionally signed run of
\* digits; what follows is ignored.  No digit is std::invalid_argument; a value
\* outside the range of double (a leading digit beyond 10^308 or below 10^-308)
\* is std::out_of_range.
stod(tok) ==
    LET start == IF tok # <<>> /\ tok[1] \in {"+", "-"} THEN 2 ELSE 1
        ni == DigitRun(tok, start)
        dot == start + ni
        hasDot == dot <= Len(tok) /\ tok[dot] = "."
        nf == IF hasDot THEN DigitRun(tok, dot + 1) ELSE 0
        ex == IF hasDot THEN dot + 1 + nf ELSE dot
        hasE == ex <= Len(tok) /\ tok[ex] \in {"e", "E"}
        exSigned == hasE /\ ex + 1 <= Len(tok) /\ tok[ex + 1] \in {"+", "-"}
        exStart == IF exSigned THEN ex + 2 ELSE ex + 1
        ne == IF hasE THEN DigitRun(tok, exStart) ELSE 0
        expMag == DigitsValue(SubSeq(tok, exStart, exStart + ne - 1))
        exp == IF ne > 0 /\ exSigned /\ tok[ex + 1] = "-" THEN 0 - expMag ELSE expMag
        mant == DigitsValue(SubSeq(tok, start, start + ni - 1)
                                \o SubSeq(tok, dot + 1, dot + nf))
        val == Normal(IF tok[1] = "-" THEN 0 - mant ELSE mant, exp - nf)
        top == exp - nf + NumDigits(mant) - 1
    IN  IF ni + nf = 0 THEN [ok |-> FALSE, val |-> [m |-> 0, e |-> 0]]
        ELSE IF mant # 0 /\ (top > 308 \/ top < -308)
        THEN [ok |-> FALSE, val |-> [m |-> 0, e |-> 0]]
        ELSE [ok |-> TRUE, val |-> val]

(***************************************************************************)
(* The parser.                                                             *)
(***************************************************************************)
RECURSIVE skip_whitespace(_, _)
skip_whitespace(c, pos) ==
    IF pos < Len(c) /\ isspace(At(c, pos)) THEN skip_whitespace(c, pos + 1) ELSE pos

\* while (pos < size && content[pos] != '\n') pos++
RECURSIVE SkipLine(_, _)
SkipLine(c, pos) ==
    IF pos < Len(c) /\ At(c, pos) # "\n" THEN SkipLine(c, pos + 1) ELSE pos

\* while (pos + 1 < size && !(content[pos] == '*' && content[pos + 1] == '/')) pos++
RECURSIVE SkipBlock(_, _)
SkipBlock(c, pos) ==
    IF pos + 1 < Len(c) /\ ~(At(c, pos) = "*" /\ At(c, pos + 1) = "/")
    THEN SkipBlock(c, pos + 1)
    ELSE pos

skip_comment(c, pos) ==
    IF pos < Len(c) /\ At(c, pos) = "/" /\ pos + 1 < Len(c)
    THEN IF At(c, pos + 1) = "/" THEN SkipLine(c, pos)
         ELSE IF At(c, pos + 1) = "*"
         THEN LET p == SkipBlock(c, pos + 2) IN IF p + 1 < Len(c) THEN p + 2 ELSE p
         ELSE pos
    ELSE pos

\* The quoted and the bare loop of parse_key: [key, pos].
RECURSIVE QuotedKey(_, _, _)
QuotedKey(c, pos, key) ==
    IF pos < Len(c) /\ At(c, pos) # "\""
    THEN QuotedKey(c, pos + 1, Append(key, At(c, pos)))
    ELSE [key |-> key, pos |-> IF pos < Len(c) /\ At(c, pos) = "\"" THEN pos + 1 ELSE pos]

RECURSIVE BareKey(_, _, _)
BareKey(c, pos, key) ==
    IF pos < Len(c) /\ (isalnum(At(c, pos)) \/ At(c, pos) = "_" \/ At(c, pos) = "-")
    THEN BareKey(c, pos + 1, Append(key, At(c, pos)))
    ELSE [key |-> key, pos |-> pos]

parse_key(c, pos0) ==
    LET pos == skip_whitespace(c, pos0)
    IN  IF pos < Len(c) /\ At(c, pos) = "\"" THEN QuotedKey(c, pos + 1, <<>>)
        ELSE BareKey(c, pos, <<>>)

\* A faulty escape switch: the character after the backslash always stands for
\* itself.
Unescape_plain(ch) == ch

\* The escape switch of the string and the character literal: n, t and r are
\* translated; the backslash, the quote and every other character stand for
\* themselves.
Unescape(ch) ==
    IF ch = "n" THEN "\n"
    ELSE IF ch = "t" THEN "\t"
    ELSE IF ch = "r" THEN "\r"
    ELSE ch

\* The loop of the string literal, from after the opening quote: [str, pos].
RECURSIVE StringBody(_, _, _)
StringBody(c, pos, str) ==
    IF pos < Len(c) /\ At(c, pos) # "\""
    THEN IF At(c, pos) = "\\" /\ pos + 1 < Len(c)
         THEN StringBody(c, pos + 2, Append(str, Unescape(At(c, pos + 1))))
         ELSE StringBody(c, pos + 1, Append(str, At(c, pos)))
    ELSE [str |-> str, pos |-> IF pos < Len(c) /\ At(c, pos) = "\"" THEN pos + 1 ELSE pos]

\* The character literal, from after the opening quote: [chr, pos].
CharBody(c, pos) ==
    LET r == IF pos < Len(c)
             THEN IF At(c, pos) = "\\" /\ pos + 1 < Len(c)
                  THEN [chr |-> Unescape(At(c, pos + 1)), pos |-> pos + 2]
                  ELSE [chr |-> At(c, pos), pos |-> pos + 1]
             ELSE [chr |-> "NUL", pos |-> pos]
    IN  [chr |-> r.chr,
         pos |-> IF r.pos < Len(c) /\ At(c, r.pos) = "'" THEN r.pos + 1 ELSE r.pos]

\* The loop that gathers a numeric token: [tok, pos, has_decimal].
RECURSIVE NumberBody(_, _, _, _)
NumberBody(c, pos, tok, dec) ==
    IF pos < Len(c) /\ (isdigit(At(c, pos)) \/ At(c, pos) \in {".", "e", "E", "+", "-"})
    THEN NumberBody(c, pos + 1, Append(tok, At(c, pos)), dec \/ At(c, pos) = ".")
    ELSE [tok |-> tok, pos |-> pos, has_decimal |-> dec]

\* The result of parse_value: st is "ok", "error" (the std::runtime_error
\* "Invalid number: " + tok) or "diverge" (a loop that repeats an iteration
\* without consuming input, so that the call does not return); val, pos and heap
\* are the value returned, the position reached and the containers allocated.
Parsed(st, val, pos, h, tok) == [st |-> st, val |-> val, pos |-> pos, heap |-> h, tok |-> tok]

\* if (pos < size && content[pos] == ch) pos++
Skip(c, pos, ch) == IF pos < Len(c) /\ At(c, pos) = ch THEN pos + 1 ELSE pos

RECURSIVE parse_value(_, _, _)
RECURSIVE ArrayBody(_, _, _, _)
RECURSIVE ObjectBody(_, _, _, _)

\* The while loop of the array case, entered at pos with `array` gathered.
ArrayBody(c, pos, h, array) ==
    IF pos < Len(c) /\ At(c, pos) # "]"
    THEN LET r == parse_value(c, pos, h)
             p1 == skip_whitespace(c, r.pos)
             p2 == IF p1 < Len(c) /\ At(c, p1) = "," THEN skip_whitespace(c, p1 + 1) ELSE p1
         IN  IF r.st # "ok" THEN r
             ELSE IF p2 = pos THEN Parsed("diverge", Blank, pos, r.heap, <<>>)
             ELSE ArrayBody(c, p2, r.heap, Append(array, r.val))
    ELSE LET o == ConfigObject_vector(h, array)
         IN  Parsed("ok", o.val, Skip(c, pos, "]"), o.heap, <<>>)

\* The while loop of the object case, entered at pos with `object` gathered.
ObjectBody(c, pos, h, object) ==
    IF pos < Len(c) /\ At(c, pos) # "}"
    THEN LET k == parse_key(c, pos)
             r == parse_value(c, Skip(c, skip_whitespace(c, k.pos), ":"), h)
             p1 == skip_whitespace(c, r.pos)
             p2 == IF p1 < Len(c) /\ At(c, p1) = "," THEN skip_whitespace(c, p1 + 1) ELSE p1
         IN  IF r.st # "ok" THEN r
             ELSE IF p2 = pos THEN Parsed("diverge", Blank, pos, r.heap, <<>>)
             ELSE ObjectBody(c, p2, r.heap, MapPut(object, k.key, r.val))
    ELSE LET o == ConfigObject_map(h, object)
         IN  Parsed("ok", o.val, Skip(c, pos, "}"), o.heap, <<>>)

parse_value(c, pos0, h) ==
    LET pos == skip_whitespace(c, pos0)
    IN  IF pos >= Len(c) THEN Parsed("ok", ConfigObject_None, pos, h, <<>>)
        ELSE IF substr(c, pos, 4) = <<"N", "o", "n", "e">>
        THEN Parsed("ok", ConfigObject_None, pos + 4, h, <<>>)
        ELSE IF substr(c, pos, 4) = <<"t", "r", "u", "e">>
        THEN Parsed("ok", ConfigObject_bool(TRUE), pos + 4, h, <<>>)
        ELSE IF substr(c, pos, 5) = <<"f", "a", "l", "s", "e">>
        THEN Parsed("ok", ConfigObject_bool(FALSE), pos + 5, h, <<>>)
        ELSE IF At(c, pos) = "\""
        THEN LET s == StringBody(c, pos + 1, <<>>)
             IN  Parsed("ok", ConfigObject_string(s.str), s.pos, h, <<>>)
        ELSE IF At(c, pos) = "'"
        THEN LET s == CharBody(c, pos + 1)
             IN  Parsed("ok", ConfigObject_char(s.chr), s.pos, h, <<>>)
        ELSE IF At(c, pos) = "["
        THEN ArrayBody(c, skip_whitespace(c, pos + 1), h, <<>>)
        ELSE IF At(c, pos) = "{"
        THEN ObjectBody(c, skip_whitespace(c, pos + 1), h, EmptyMap)
        ELSE IF isdigit(At(c, pos)) \/ At(c, pos) = "-" \/ At(c, pos) = "+"
        THEN LET signed == At(c, pos) \in {"-", "+"}
                 n == NumberBody(c, IF signed THEN pos + 1 ELSE pos,
                                 IF signed THEN <<At(c, pos)>> ELSE <<>>, FALSE)
             IN  IF n.has_decimal
                 THEN IF stod(n.tok).ok
                      THEN Parsed("ok", ConfigObject_double(stod(n.tok).val), n.pos, h, <<>>)
                      ELSE Parsed("error", Blank, n.pos, h, n.tok)
                 ELSE IF stoll(n.tok).ok
                      THEN Parsed("ok", ConfigObject_ll(stoll(n.tok).val), n.pos, h, <<>>)
                      ELSE Parsed("error", Blank, n.pos, h, n.tok)
        ELSE Parsed("ok", ConfigObject_None, pos, h, <<>>)

\* parse_content without its comment loop.
SkipComments_none(c, pos) == pos

\* The loop of parse_content that skips the comments before a key.
RECURSIVE SkipComments(_, _)
SkipComments(c, pos) ==
    IF pos < Len(c) /\ At(c, pos) = "/"
    THEN IF skip_comment(c, pos) = pos THEN pos
         ELSE SkipComments(c, skip_whitespace(c, skip_comment(c, pos)))
    ELSE pos

\* The while loop of parse_content, entered at pos with the mapping d: [st, data,
\* heap, tok].  data is the mapping as the call leaves it, also when it throws.
RECURSIVE ContentBody(_, _, _, _)

\* From the value parsed to the end of the iteration: the assignment under the
\* non-empty key, the optional comma, and the next iteration.
ContentValue(c, pos, d, key, r) ==
    LET d1 == IF key # <<>> THEN MapPut(d, key, r.val) ELSE d
        p1 == Skip(c, skip_whitespace(c, r.pos), ",")
    IN  IF r.st # "ok" THEN [st |-> r.st, data |-> d, heap |-> r.heap, tok |-> r.tok]
        ELSE IF p1 = pos THEN [st |-> "diverge", data |-> d1, heap |-> r.heap, tok |-> <<>>]
        ELSE ContentBody(c, p1, r.heap, d1)

\* From the key parsed: the optional colon and the value.
ContentPair(c, pos, h, d, k) ==
    ContentValue(c, pos, d, k.key,
                 parse_value(c, Skip(c, skip_whitespace(c, k.pos), ":"), h))

ContentBody(c, pos, h, d) ==
    LET p == SkipComments(c, skip_whitespace(c, pos))
    IN  IF pos < Len(c) /\ p < Len(c) THEN ContentPair(c, pos, h, d, parse_key(c, p))
        ELSE [st |-> "ok", data |-> d, heap |-> h, tok |-> <<>>]

\* parse_content: data is replaced by a new empty mapping, then filled.
parse_content(c, h) == ContentBody(c, 0, h, EmptyMap)

(***************************************************************************)
(* Typed getters and the writer.                                           *)
(***************************************************************************)
\* get_as<T>: [has, val]; has = FALSE is std::nullopt.
\* static_cast<long long>(double): the value with its fraction discarded.  The
\* conversion is defined only when that value is a long long; FitsLL tells so for
\* the doubles modelled, which are below 10^9 in magnitude or at least 10^19.
Abs(n) == IF n < 0 THEN 0 - n ELSE n

FitsLL(f) == f.m = 0 \/ NumDigits(Abs(f.m)) + f.e <= 9

Truncate(f) ==
    IF f.e >= 0 THEN f.m * Pow10(f.e)
    ELSE IF 0 - f.e > 9 THEN 0
    ELSE IF f.m < 0 THEN 0 - (Abs(f.m) \div Pow10(0 - f.e))
    ELSE f.m \div Pow10(0 - f.e)

\* get_as<long long>: [has, val, ub]; ub tells that the cast had undefined
\* behaviour, val being then unspecified.
get_as_ll(v) ==
    IF v.type = "NUMBER" THEN [has |-> TRUE, val |-> v.num, ub |-> FALSE]
    ELSE IF v.type = "FLOAT"
    THEN IF FitsLL(v.flt) THEN [has |-> TRUE, val |-> Truncate(v.flt), ub |-> FALSE]
         ELSE [has |-> TRUE, val |-> 0, ub |-> TRUE]
    ELSE [has |-> FALSE, val |-> 0, ub |-> FALSE]

get_as_double(v) ==
    IF v.type = "FLOAT" THEN [has |-> TRUE, val |-> v.flt]
    ELSE IF v.type = "NUMBER" THEN [has |-> TRUE, val |-> Normal(v.num, 0)]
    ELSE [has |-> FALSE, val |-> [m |-> 0, e |-> 0]]

get_as_bool(v) ==
    IF v.type = "BOOLEAN" THEN [has |-> TRUE, val |-> v.bool]
    ELSE [has |-> FALSE, val |-> FALSE]

get_as_string(v) ==
    IF v.type = "STRING" THEN [has |-> TRUE, val |-> v.str]
    ELSE IF v.type = "CHARACTER" THEN [has |-> TRUE, val |-> <<v.chr>>]
    ELSE [has |-> FALSE, val |-> <<>>]

get_as_char(v) ==
    IF v.type = "CHARACTER" THEN [has |-> TRUE, val |-> v.chr]
    ELSE IF v.type = "STRING" /\ Len(v.str) = 1 THEN [has |-> TRUE, val |-> v.str[1]]
    ELSE [has |-> FALSE, val |-> "NUL"]

\* get_as<std::shared_ptr<...>>: T matches none of the `if constexpr` branches,
\* so the call falls through to `return std::nullopt` whatever the tag is.
get_as_ptr(v) == [has |-> FALSE, val |-> 0]

\* operator<<(long long): the decimal digits, with a minus sign when negative.
RECURSIVE NatText(_)
NatText(n) ==
    IF n < 10 THEN <<DigitChar(n)>> ELSE Append(NatText(n \div 10), DigitChar(n % 10))

IntText(n) == IF n < 0 THEN <<"-">> \o NatText(0 - n) ELSE NatText(n)

Zeros(n) == [i \in 1..n |-> "0"]

\* operator<<(double): the %g form with the default precision 6, for a value of
\* at most 6 significant digits.  With x the exponent of the leading digit, the
\* scientific form is used when x < -4 or x >= 6; trailing zeros and a trailing
\* point are not written.
FloatText(f) ==
    LET neg == f.m < 0
        ds == NatText(IF neg THEN 0 - f.m ELSE f.m)
        x == f.e + Len(ds) - 1
        ax == IF x < 0 THEN 0 - x ELSE x
        body ==
            IF f.m = 0 THEN <<"0">>
            ELSE IF x < -4 \/ x >= 6
            THEN <<ds[1]>> \o (IF Len(ds) > 1 THEN <<".">> \o SubSeq(ds, 2, Len(ds)) ELSE <<>>)
                     \o <<"e", IF x < 0 THEN "-" ELSE "+">>
                     \o (IF ax < 10 THEN <<"0">> ELSE <<>>) \o NatText(ax)
            ELSE IF f.e >= 0 THEN ds \o Zeros(f.e)
            ELSE IF x >= 0 THEN SubSeq(ds, 1, x + 1) \o <<".">> \o SubSeq(ds, x + 2, Len(ds))
            ELSE <<"0", ".">> \o Zeros(0 - x - 1) \o ds
    IN  (IF neg THEN <<"-">> ELSE <<>>) \o body

\* The escaping loops of the STRING and the CHARACTER case; q is the quote.
EscapeChar(ch, q) ==
    IF ch = "\n" THEN <<"\\", "n">>
    ELSE IF ch = "\t" THEN <<"\\", "t">>
    ELSE IF ch = "\r" THEN <<"\\", "r">>
    ELSE IF ch = "\\" THEN <<"\\", "\\">>
    ELSE IF ch = q THEN <<"\\", q>>
    ELSE <<ch>>

RECURSIVE Escaped(_)
Escaped(str) ==
    IF str = <<>> THEN <<>> ELSE EscapeChar(str[1], "\"") \o Escaped(Tail(str))

\* The order of std::map<std::string, ...>: bytes compared as unsigned values.
Printable ==
    <<" ", "!", "\"", "#", "$", "%", "&", "'", "(", ")", "*", "+", ",", "-", ".", "/",
      "0", "1", "2", "3", "4", "5", "6", "7", "8", "9", ":", ";", "<", "=", ">", "?", "@",
      "A", "B", "C", "D", "E", "F", "G", "H", "I", "J", "K", "L", "M", "N", "O", "P", "Q",
      "R", "S", "T", "U", "V", "W", "X", "Y", "Z", "[", "\\", "]", "^", "_", "GRAVE",
      "a", "b", "c", "d", "e", "f", "g", "h", "i", "j", "k", "l", "m", "n", "o", "p", "q",
      "r", "s", "t", "u", "v", "w", "x", "y", "z", "{", "|", "}", "~">>

CharCode(ch) ==
    IF ch = "NUL" THEN 0
    ELSE IF ch = "\t" THEN 9
    ELSE IF ch = "\n" THEN 10
    ELSE IF ch = "VT" THEN 11
    ELSE IF ch = "\f" THEN 12
    ELSE IF ch = "\r" THEN 13
    ELSE 31 + (CHOOSE i \in 1..Len(Printable) : Printable[i] = ch)

RECURSIVE KeyLess(_, _)
KeyLess(a, b) ==
    IF b = <<>> THEN FALSE
    ELSE IF a = <<>> THEN TRUE
    ELSE IF a[1] = b[1] THEN KeyLess(Tail(a), Tail(b))
    ELSE CharCode(a[1]) < CharCode(b[1])

\* The keys of a mapping in the order the range-for visits them.
RECURSIVE InOrder(_)
InOrder(ks) ==
    IF ks = {} THEN <<>>
    ELSE LET k == CHOOSE k \in ks : \A j \in ks \ {k} : KeyLess(k, j)
         IN  <<k>> \o InOrder(ks \ {k})

Indent(n) == [i \in 1..(4 * n) |-> " "]

RECURSIVE write_value(_, _, _, _)
RECURSIVE WriteEntries(_, _, _, _, _)
RECURSIVE WriteElements(_, _, _, _, _)

\* The range-for of the OBJECT case over the keys ks (in order).
WriteEntries(h, m, ks, indent, is_inline) ==
    IF ks = <<>> THEN <<>>
    ELSE (IF is_inline THEN <<"\"">> ELSE Indent(indent) \o <<" ", " ", " ", " ", "\"">>)
             \o ks[1] \o <<"\"", ":", " ">>
             \o write_value(h, m[ks[1]], IF is_inline THEN 0 ELSE indent + 1, is_inline)
             \o (IF Len(ks) = 1 THEN <<>>
                 ELSE (IF is_inline THEN <<",", " ">> ELSE <<",", "\n">>)
                          \o WriteEntries(h, m, Tail(ks), indent, is_inline))

\* The for loop of the ARRAY case over the elements vec.
WriteElements(h, vec, i, indent, is_inline) ==
    IF i > Len(vec) THEN <<>>
    ELSE (IF i > 1 THEN (IF is_inline THEN <<",", " ">> ELSE <<",", "\n">>) ELSE <<>>)
             \o (IF is_inline THEN <<>> ELSE Indent(indent) \o <<" ", " ", " ", " ">>)
             \o write_value(h, vec[i], IF is_inline THEN 0 ELSE indent + 1, is_inline)
             \o WriteElements(h, vec, i + 1, indent, is_inline)

write_value(h, obj, indent, is_inline) ==
    CASE obj.type = "NONE" -> <<"N", "o", "n", "e">>
      [] obj.type = "NUMBER" -> IntText(get_as_ll(obj).val)
      [] obj.type = "FLOAT" -> FloatText(get_as_double(obj).val)
      [] obj.type = "BOOLEAN" ->
            (IF get_as_bool(obj).val THEN <<"t", "r", "u", "e">> ELSE <<"f", "a", "l", "s", "e">>)
      [] obj.type = "STRING" -> <<"\"">> \o Escaped(get_as_string(obj).val) \o <<"\"">>
      [] obj.type = "CHARACTER" ->
            <<"'">> \o EscapeChar(get_as_char(obj).val, "'") \o <<"'">>
      [] obj.type = "OBJECT" ->
            (IF ~get_as_ptr(obj).has THEN <<>>
             ELSE LET m == h[get_as_ptr(obj).val].map
                  IN  IF DOMAIN m = {} THEN <<"{", "}">>
                      ELSE IF is_inline
                      THEN <<"{">> \o WriteEntries(h, m, InOrder(DOMAIN m), indent, TRUE) \o <<"}">>
                      ELSE <<"{", "\n">> \o WriteEntries(h, m, InOrder(DOMAIN m), indent, FALSE)
                               \o <<"\n">> \o Indent(indent) \o <<"}">>)
      [] obj.type = "ARRAY" ->
            (IF ~get_as_ptr(obj).has THEN <<>>
             ELSE LET vec == h[get_as_ptr(obj).val].vec
                  IN  IF vec = <<>> THEN <<"[", "]">>
                      ELSE IF is_inline \/ Len(vec) <= 3
                      THEN <<"[">> \o WriteElements(h, vec, 1, indent, TRUE) \o <<"]">>
                      ELSE <<"[", "\n">> \o WriteElements(h, vec, 1, indent, FALSE)
                               \o <<"\n">> \o Indent(indent) \o <<"]">>)

(***************************************************************************)
(* The caller's side: ConfigObject variables x and y and the statements a  *)
(* program can run on them.  `last` records the statement run last.        *)
(***************************************************************************)
NoOp == [op |-> "init", exc |-> ""]

\* std::optional<fs::path> and the file system: the paths a caller passes and
\* what each holds.  "p" names a regular file that may or may not exist; "q"
\* lies in a directory that does not exist, so it can be neither read nor
\* created.
Paths == {"p", "q"}
Creatable == {"p"}
nullopt == [has |-> FALSE, path |-> ""]
NoFile == [exists |-> FALSE, content |-> <<>>]
NoFiles == [path \in Paths |-> NoFile]

\* No parse has run.
\* Version<VersionAfter26>() and Version<VersionBefore26>(): the member defaults.
VersionData_After26 == [major |-> 26, minor |-> 0, patch |-> 0]
VersionData_Before26 == [minor |-> 0, patch |-> 0]
NoVersion == [after26 |-> VersionData_After26, before26 |-> VersionData_Before26]

NoRes ==
    [done |-> FALSE, st |-> "", data |-> EmptyMap, val |-> Blank, heap |-> <<>>, tok |-> <<>>,
     out |-> <<>>]

Scalars ==
    {ConfigObject_None, ConfigObject_ll(1)}

\* The arguments of the container constructors.
MapInputs == {EmptyMap, MapPut(EmptyMap, <<"a">>, ConfigObject_ll(1))}
VecInputs == {<<>>, <<ConfigObject_ll(1)>>}

Indices == 0..MaxIndex

DocIdle == UNCHANGED <<data, filepath, opened, files, text, res, version>>

\* The values the program can still name: the roots of shared ownership.
Roots(l, d) == {l[x] : x \in DOMAIN l} \cup {d[k] : k \in DOMAIN d}

\* x = ConfigObject(scalar);
Construct(x, s) ==
    /\ loc' = [loc EXCEPT ![x] = s]
    /\ heap' = Release(heap, Roots(loc', data))
    /\ last' = [NoOp EXCEPT !.op = "Construct"]
    /\ DocIdle

\* x = ConfigObject(std::map{...});
ConstructMap(x, m) ==
    LET r == ConfigObject_map(heap, m)
    IN  /\ loc' = [loc EXCEPT ![x] = r.val]
        /\ heap' = Release(r.heap, Roots(loc', data))
        /\ Cardinality(Live(heap')) <= MaxHandles
        /\ last' = [NoOp EXCEPT !.op = "ConstructMap"]
        /\ DocIdle

\* x = ConfigObject(std::vector{...});
ConstructVector(x, a) ==
    LET r == ConfigObject_vector(heap, a)
    IN  /\ loc' = [loc EXCEPT ![x] = r.val]
        /\ heap' = Release(r.heap, Roots(loc', data))
        /\ Cardinality(Live(heap')) <= MaxHandles
        /\ last' = [NoOp EXCEPT !.op = "ConstructVector"]
        /\ DocIdle

\* x = y;
Copy(x, y) ==
    LET r == copy(heap, loc[y])
    IN  /\ x # y
        /\ loc' = [loc EXCEPT ![x] = r.val]
        /\ heap' = Release(r.heap, Roots(loc', data))
        /\ Cardinality(Live(heap')) <= MaxHandles
        /\ last' = [NoOp EXCEPT !.op = "Copy"]
        /\ DocIdle

\* x[key];   (the access alone, its result unused)
IndexKey(x, key) ==
    LET r == operator_index_key(heap, loc[x], key)
    IN  /\ loc' = [loc EXCEPT ![x] = r.val]
        /\ heap' = Release(r.heap, Roots(loc', data))
        /\ Cardinality(Live(heap')) <= MaxHandles
        /\ last' = [NoOp EXCEPT !.op = "IndexKey", !.exc = r.exc]
        /\ DocIdle

\* x[index];
IndexAt(x, index) ==
    LET r == operator_index_at(heap, loc[x], index)
    IN  /\ loc' = [loc EXCEPT ![x] = r.val]
        /\ heap' = Release(r.heap, Roots(loc', data))
        /\ Cardinality(Live(heap')) <= MaxHandles
        /\ last' = [NoOp EXCEPT !.op = "IndexAt", !.exc = r.exc]
        /\ DocIdle


\* x[key] = src;
AssignKey(x, key, src) ==
    LET r == operator_index_key(heap, loc[x], key)
        c == copy(r.heap, src)
    IN  /\ loc' = [loc EXCEPT ![x] = r.val]
        /\ heap' = Release(IF r.exc = "" THEN [c.heap EXCEPT ![r.val.ptr].map = MapPut(@, key, c.val)]
                                        ELSE r.heap,
                           Roots(loc', data))
        /\ Cardinality(Live(heap')) <= MaxHandles
        /\ last' = [NoOp EXCEPT !.op = "AssignKey", !.exc = r.exc]
        /\ DocIdle

\* x[index] = src;
AssignAt(x, index, src) ==
    LET r == operator_index_at(heap, loc[x], index)
        c == copy(r.heap, src)
    IN  /\ loc' = [loc EXCEPT ![x] = r.val]
        /\ heap' = Release(IF r.exc = "" THEN [c.heap EXCEPT ![r.val.ptr].vec[index + 1] = c.val]
                                        ELSE r.heap,
                           Roots(loc', data))
        /\ Cardinality(Live(heap')) <= MaxHandles
        /\ last' = [NoOp EXCEPT !.op = "AssignAt", !.exc = r.exc]
        /\ DocIdle

\* A faulty y = x.at(key): the access goes through the mutating operator[].
LoadKey_indexing(y, x, key) ==
    LET r == operator_index_key(heap, loc[x], key)
        c == copy(r.heap, IF r.exc = "" THEN r.heap[r.val.ptr].map[key] ELSE Blank)
    IN  /\ x # y
        /\ loc' = IF r.exc = "" THEN [loc EXCEPT ![x] = r.val, ![y] = c.val]
                  ELSE [loc EXCEPT ![x] = r.val]
        /\ heap' = Release(c.heap, Roots(loc', data))
        /\ Cardinality(Live(heap')) <= MaxHandles
        /\ last' = [NoOp EXCEPT !.op = "LoadKey", !.exc = r.exc]
        /\ DocIdle

\* y = x.at(key);   (nothing is assigned when at() throws)
LoadKey(y, x, key) ==
    LET a == at_key(heap, loc[x], key)
        c == copy(heap, a.val)
    IN  /\ x # y
        /\ loc' = IF a.exc = "" THEN [loc EXCEPT ![y] = c.val] ELSE loc
        /\ heap' = Release(c.heap, Roots(loc', data))
        /\ last' = [NoOp EXCEPT !.op = "LoadKey", !.exc = a.exc]
        /\ DocIdle

\* y = x.at(index);
LoadAt(y, x, index) ==
    LET a == at_index(heap, loc[x], index)
        c == copy(heap, a.val)
    IN  /\ x # y
        /\ loc' = IF a.exc = "" THEN [loc EXCEPT ![y] = c.val] ELSE loc
        /\ heap' = Release(c.heap, Roots(loc', data))
        /\ last' = [NoOp EXCEPT !.op = "LoadAt", !.exc = a.exc]
        /\ DocIdle

InitValue ==
    /\ heap = <<>>
    /\ loc = [x \in Locals |-> ConfigObject_None]
    /\ data = EmptyMap
    /\ filepath = nullopt
    /\ opened = FALSE
    /\ files = NoFiles
    /\ text = <<>>
    /\ res = NoRes
    /\ last = NoOp
    /\ version = NoVersion

NextValue ==
    \/ \E x \in Locals, s \in Scalars : Construct(x, s)
    \/ \E x \in Locals, m \in MapInputs : ConstructMap(x, m)
    \/ \E x \in Locals, a \in VecInputs : ConstructVector(x, a)
    \/ \E x, y \in Locals : Copy(x, y)
    \/ \E x \in Locals, k \in Keys : IndexKey(x, k)
    \/ \E x \in Locals, i \in Indices : IndexAt(x, i)
    \/ \E x \in Locals, k \in Keys, src \in Scalars : AssignKey(x, k, src)
    \/ \E x \in Locals, i \in Indices, src \in Scalars : AssignAt(x, i, src)
    \/ \E x, y \in Locals, k \in Keys : LoadKey(y, x, k)
    \/ \E x, y \in Locals, i \in Indices : LoadAt(y, x, i)

SpecValue == InitValue /\ [][NextValue]_vars

(***************************************************************************)
(* Claims about ConfigObject, checked under SpecValue.                     *)
(***************************************************************************)
IsContainer(v) == v.type \in {"OBJECT", "ARRAY"}

\* Two values hold the same container: the same kind and the same handle.
Shares(a, b) == IsContainer(a) /\ a.type = b.type /\ a.ptr # 0 /\ a.ptr = b.ptr

\* What has_key, size and at report.
SameView(h, a, b) ==
    /\ size(h, a) = size(h, b)
    /\ \A k \in Keys : /\ has_key(h, a, k) = has_key(h, b, k)
                        /\ at_key(h, a, k) = at_key(h, b, k)
    /\ \A i \in 0..(MaxIndex + 1) : at_index(h, a, i) = at_index(h, b, i)

\* C6: after copying a Value tagged Object or Array, the copy and the original
\* share one container, and an insertion or assignment made by keyed or indexed
\* access through one of two Values sharing a container (of the matching kind,
\* so that nothing is re-materialized) is seen by has_key, size and at through
\* the other.
C6_Aliasing ==
    [][/\ \A x, y \in Locals :
            IsContainer(loc[y]) /\ Copy(x, y)
                => Shares(loc'[x], loc'[y]) /\ SameView(heap', loc'[x], loc'[y])
       /\ \A x \in Locals, y \in Locals, k \in Keys :
            x # y /\ Shares(loc[x], loc[y]) /\ is_object(loc[x]) /\ IndexKey(x, k)
                => has_key(heap', loc'[y], k) /\ SameView(heap', loc'[x], loc'[y])
       /\ \A x \in Locals, y \in Locals, k \in Keys, s \in Scalars :
            x # y /\ Shares(loc[x], loc[y]) /\ is_object(loc[x]) /\ AssignKey(x, k, s)
                => /\ at_key(heap', loc'[y], k) = [exc |-> "", val |-> s]
                   /\ SameView(heap', loc'[x], loc'[y])
       /\ \A x \in Locals, y \in Locals, i \in Indices :
            x # y /\ Shares(loc[x], loc[y]) /\ is_array(loc[x]) /\ IndexAt(x, i)
                => size(heap', loc'[y]) > i /\ SameView(heap', loc'[x], loc'[y])
       /\ \A x \in Locals, y \in Locals, i \in Indices, s \in Scalars :
            x # y /\ Shares(loc[x], loc[y]) /\ is_array(loc[x]) /\ AssignAt(x, i, s)
                => /\ at_index(heap', loc'[y], i) = [exc |-> "", val |-> s]
                   /\ SameView(heap', loc'[x], loc'[y])
      ]_vars

\* A value was assigned through x into the Array that y, a copy, shares with it.
C6_Witness ==
    /\ last.op = "AssignAt"
    /\ Shares(loc["x"], loc["y"]) /\ is_array(loc["y"])
    /\ at_index(heap, loc["y"], 1) = [exc |-> "", val |-> ConfigObject_ll(1)]

\* C8: keyed access value[k] on a Value whose tag is not Object discards its
\* payload and makes it an Object holding exactly the key k mapped to None; on
\* a Value that is an Object it keeps every entry and inserts k with None only
\* if k was absent.
C8_LazyKey ==
    [][\A x \in Locals, k \in Keys :
          IndexKey(x, k) =>
            IF loc[x].type # "OBJECT"
            THEN /\ loc'[x] = [Blank EXCEPT !.type = "OBJECT", !.alt = "map_ptr",
                                            !.ptr = loc'[x].ptr]
                 /\ loc'[x].ptr \in Live(heap')
                 /\ heap'[loc'[x].ptr] = MapCell(MapPut(EmptyMap, k, ConfigObject_None))
            ELSE /\ loc'[x] = loc[x]
                 /\ heap'[loc[x].ptr].kind = "map"
                 /\ DOMAIN heap'[loc[x].ptr].map = DOMAIN heap[loc[x].ptr].map \cup {k}
                 /\ \A j \in DOMAIN heap[loc[x].ptr].map :
                        heap'[loc[x].ptr].map[j] = heap[loc[x].ptr].map[j]
                 /\ k \notin DOMAIN heap[loc[x].ptr].map
                        => heap'[loc[x].ptr].map[k] = ConfigObject_None
      ]_vars

\* After a keyed access, x is an Object of the single key b (materialized from a
\* non-Object) and y an Object that kept its entry a and gained b.
C8_Witness ==
    /\ last.op = "IndexKey"
    /\ is_object(loc["x"]) /\ is_object(loc["y"])
    /\ heap[loc["x"].ptr].map = MapPut(EmptyMap, <<"b">>, ConfigObject_None)
    /\ heap[loc["y"].ptr].map =
          MapPut(MapPut(EmptyMap, <<"a">>, ConfigObject_ll(1)), <<"b">>, ConfigObject_None)

\* C9: indexed access value[i] on a non-Array Value makes it an Array of length
\* i+1 of None; on an Array of length n with i >= n it grows the Array to i+1,
\* keeping elements 0..n-1 and filling n..i with None; with i < n it changes
\* nothing.
C9_LazyIndex ==
    [][\A x \in Locals, i \in Indices :
          IndexAt(x, i) =>
            IF loc[x].type # "ARRAY"
            THEN /\ loc'[x] = [Blank EXCEPT !.type = "ARRAY", !.alt = "vec_ptr",
                                            !.ptr = loc'[x].ptr]
                 /\ loc'[x].ptr \in Live(heap')
                 /\ heap'[loc'[x].ptr] = VecCell([j \in 1..(i + 1) |-> ConfigObject_None])
            ELSE LET old == heap[loc[x].ptr].vec
                     new == heap'[loc[x].ptr].vec
                 IN  /\ loc'[x] = loc[x]
                     /\ heap'[loc[x].ptr].kind = "vec"
                     /\ IF i >= Len(old)
                        THEN /\ Len(new) = i + 1
                             /\ \A j \in 1..Len(old) : new[j] = old[j]
                             /\ \A j \in (Len(old) + 1)..(i + 1) : new[j] = ConfigObject_None
                        ELSE new = old
      ]_vars

\* After an indexed access, x is an Array that grew from <<1>> to <<1, None>>.
C9_Witness ==
    /\ last.op = "IndexAt"
    /\ is_array(loc["x"])
    /\ heap[loc["x"].ptr].vec = <<ConfigObject_ll(1), ConfigObject_None>>

(***************************************************************************)
(* The parser as a function of its input: every text over ParseAlphabet of *)
(* at most MaxLen characters is handed to parse_content.                   *)
(***************************************************************************)
ParseAlphabet == {"a", "1", "-", ":", ",", "[", "]", "{", "}", "@", "/", " "}

Texts(alphabet, n) == UNION {[1..k -> alphabet] : k \in 0..n}

InitParse ==
    /\ text \in Texts(ParseAlphabet, MaxLen)
    /\ res = NoRes
    /\ heap = <<>>
    /\ loc = [x \in Locals |-> ConfigObject_None]
    /\ data = EmptyMap
    /\ filepath = nullopt
    /\ opened = FALSE
    /\ files = NoFiles
    /\ last = NoOp
    /\ version = NoVersion

\* parse_content(text) on a Config of its own.
Parse ==
    LET r == parse_content(text, <<>>)
    IN  /\ ~res.done
        /\ res' = [done |-> TRUE, st |-> r.st, data |-> r.data, val |-> Blank,
                   heap |-> Release(r.heap, {r.data[k] : k \in DOMAIN r.data}),
                   tok |-> r.tok, out |-> <<>>]
        /\ last' = [op |-> "parse_content", exc |-> IF r.st = "error" THEN "Invalid number" ELSE ""]
        /\ UNCHANGED <<heap, loc, data, filepath, opened, files, text, version>>

NextParse == Parse

SpecParse == InitParse /\ [][NextParse]_vars

\* C2: the parser terminates on every finite text: parse_content either returns
\* the top-level mapping or raises the numeric-token error, because every
\* iteration of the document, array and object loops consumes a character.
C2_Terminates == res.done => res.st \in {"ok", "error"}

(***************************************************************************)
(* The writer followed by the parser, on value trees built with the        *)
(* constructors.                                                           *)
(***************************************************************************)
RoundStrings == Texts({"a", "\"", "\\", "\n"}, MaxIndex + 1)

RoundScalars ==
    {ConfigObject_None, ConfigObject_bool(TRUE), ConfigObject_bool(FALSE)}
        \cup {ConfigObject_ll(n) : n \in {0, 7, -12}}
        \cup {ConfigObject_string(str) : str \in RoundStrings}
        \cup {ConfigObject_char(ch) : ch \in {"a", "'", "\\", "\n", "\""}}

\* Trees of depth 0, 1 and 2: [heap, val].
Tree0 == {[heap |-> <<>>, val |-> v] : v \in RoundScalars}

Tree1 ==
    {ConfigObject_vector(<<>>, arr) : arr \in Texts(RoundScalars, 1)}
        \cup {ConfigObject_vector(<<>>, <<ConfigObject_ll(7), v>>) : v \in RoundScalars}
        \cup {ConfigObject_vector(<<>>, [i \in 1..n |-> ConfigObject_ll(i)]) : n \in 3..MaxLen}
        \cup {ConfigObject_map(<<>>, EmptyMap)}
        \cup {ConfigObject_map(<<>>, MapPut(EmptyMap, k, v)) : k \in Keys, v \in RoundScalars}

Tree2 ==
    {ConfigObject_vector(t.heap, <<t.val>>) : t \in Tree1}
        \cup {ConfigObject_map(t.heap, MapPut(EmptyMap, <<"a">>, t.val)) : t \in Tree1}

InitRound ==
    /\ \E t \in Tree0 \cup Tree1 \cup Tree2 :
          /\ heap = t.heap
          /\ loc = [x \in Locals |-> IF x = "x" THEN t.val ELSE ConfigObject_None]
    /\ text = <<>>
    /\ res = NoRes
    /\ data = EmptyMap
    /\ filepath = nullopt
    /\ opened = FALSE
    /\ files = NoFiles
    /\ last = NoOp
    /\ version = NoVersion

\* write_value(os, x) with the default indent and is_inline, then parse_value
\* on the text written.
RoundTrip ==
    LET out == write_value(heap, loc["x"], 0, FALSE)
        r == parse_value(out, 0, <<>>)
    IN  /\ ~res.done
        /\ text' = out
        /\ res' = [done |-> TRUE, st |-> r.st, data |-> EmptyMap, val |-> r.val,
                   heap |-> Release(r.heap, {r.val}), tok |-> r.tok,
                   out |-> <<>>]
        /\ last' = [op |-> "round_trip", exc |-> IF r.st = "error" THEN "Invalid number" ELSE ""]
        /\ UNCHANGED <<heap, loc, data, filepath, opened, files, version>>

NextRound == RoundTrip

SpecRound == InitRound /\ [][NextRound]_vars

\* Structural equality of a value v1 over heap h1 and a value v2 over heap h2:
\* the same tags, scalar payloads, key sets and array lengths and order.
RECURSIVE StructEq(_, _, _, _)
StructEq(h1, v1, h2, v2) ==
    /\ v1.type = v2.type
    /\ CASE v1.type = "OBJECT" ->
              /\ DOMAIN h1[v1.ptr].map = DOMAIN h2[v2.ptr].map
              /\ \A k \in DOMAIN h1[v1.ptr].map :
                    StructEq(h1, h1[v1.ptr].map[k], h2, h2[v2.ptr].map[k])
         [] v1.type = "ARRAY" ->
              /\ Len(h1[v1.ptr].vec) = Len(h2[v2.ptr].vec)
              /\ \A i \in 1..Len(h1[v1.ptr].vec) :
                    StructEq(h1, h1[v1.ptr].vec[i], h2, h2[v2.ptr].vec[i])
         [] OTHER -> v1 = v2

\* C1: for every value tree built with the constructors (None, Integer, Boolean,
\* String, Character, Object, Array, nested to a bounded depth), write_value
\* followed by parse_value returns a structurally equal tree.
C1_RoundTrip == res.done => res.st = "ok" /\ StructEq(heap, loc["x"], res.heap, res.val)

\* The part of C1 that the code keeps: trees that are a single scalar.
C1_ScalarRoundTrip ==
    res.done /\ ~IsContainer(loc["x"])
        => res.st = "ok" /\ StructEq(heap, loc["x"], res.heap, res.val)

(***************************************************************************)
(* The Document: class Config, its file, and the calls of its public       *)
(* interface.  The result of get is stored in the caller's variable x.     *)
(***************************************************************************)
\* The file texts present before the program starts.
FileTexts ==
    { <<"a", ":", " ", "1", "\n", "b", ":", " ", "[", "1", "]", "\n">>,
      <<"a", ":", " ", "1", "\n", "b", ":", " ", "-", "\n">>,
      <<"@">> }

\* The arguments of set and add.
DocValues == {ConfigObject_ll(1), ConfigObject_ll(2)}
DocVectors == {<<ConfigObject_ll(1)>>}

\* The loop of save(path): one line `key: value` per top-level key, in order.
RECURSIVE SaveLines(_, _, _)
SaveLines(h, d, ks) ==
    IF ks = <<>> THEN <<>>
    ELSE ks[1] \o <<":", " ">> \o write_value(h, d[ks[1]], 0, FALSE) \o <<"\n">>
             \o SaveLines(h, d, Tail(ks))

\* A get that reads through std::map::operator[].
get_inserting(d, name) ==
    [data |-> IF name \in DOMAIN d THEN d ELSE MapPut(d, name, ConfigObject_None),
     val |-> IF name \in DOMAIN d THEN d[name] ELSE ConfigObject_None]

\* get: [data, val].  The function is const: data is returned as it was given.
get(d, name) ==
    [data |-> d, val |-> IF name \in DOMAIN d THEN d[name] ELSE ConfigObject_None]

\* set(name, const ConfigObject&): [heap, data].
set(h, d, name, value) == [heap |-> h, data |-> MapPut(d, name, value)]

\* An add that gathers the values under a key into an Array.
add_impl_wrap(h, d, name, value) ==
    IF name \in DOMAIN d /\ ~is_array(d[name])
    THEN LET o == ConfigObject_vector(h, <<d[name], value>>)
         IN  set(o.heap, d, name, o.val)
    ELSE set(h, d, name, value)

\* add_impl: [heap, data].  The push_back is reached only when get_as yields a
\* pointer.
add_impl(h, d, name, value) ==
    IF name \in DOMAIN d /\ is_array(d[name])
    THEN LET arr_ptr == get_as_ptr(d[name])
         IN  IF arr_ptr.has
             THEN [heap |-> HeapSet(h, arr_ptr.val, VecCell(Append(h[arr_ptr.val].vec, value))),
                   data |-> d]
             ELSE [heap |-> h, data |-> d]
    ELSE set(h, d, name, value)

Running == last.exc # "diverge"

DocFrame == UNCHANGED <<text, res, version>>

\* A faulty open: a file that cannot be read is taken for an empty one, and the
\* Document is reset before the error is raised.
Open_resetting(path) ==
    /\ Running
    /\ ~files[path].exists
    /\ data' = EmptyMap
    /\ filepath' = nullopt
    /\ opened' = FALSE
    /\ heap' = Release(heap, Roots(loc, data'))
    /\ last' = [op |-> "open", exc |-> "Cannot open file"]
    /\ UNCHANGED <<loc, files>>
    /\ DocFrame

\* A faulty open: the pairs parsed are merged into the mapping held before.
Open_merging(path) ==
    /\ Running
    /\ files[path].exists
    /\ LET r == parse_content(files[path].content, heap)
       IN  /\ r.st = "ok"
           /\ data' = [k \in DOMAIN data \cup DOMAIN r.data |->
                          IF k \in DOMAIN r.data THEN r.data[k] ELSE data[k]]
           /\ heap' = Release(r.heap, Roots(loc, data'))
           /\ Cardinality(Live(heap')) <= MaxHandles
    /\ filepath' = [has |-> TRUE, path |-> path]
    /\ opened' = TRUE
    /\ last' = [op |-> "open", exc |-> ""]
    /\ UNCHANGED <<loc, files>>
    /\ DocFrame

\* A faulty open: the path is bound before the file is read and parsed, and
\* stays bound when the call fails.
Open_binding(path) ==
    /\ Running
    /\ filepath' = [has |-> TRUE, path |-> path]
    /\ IF ~files[path].exists
       THEN /\ last' = [op |-> "open", exc |-> "Cannot open file"]
            /\ UNCHANGED <<heap, loc, data, opened, files>>
       ELSE LET r == parse_content(files[path].content, Release(heap, Roots(loc, EmptyMap)))
            IN  /\ data' = r.data
                /\ heap' = Release(r.heap, Roots(loc, data'))
                /\ Cardinality(Live(heap')) <= MaxHandles
                /\ opened' = IF r.st = "ok" THEN TRUE ELSE opened
                /\ last' = [op |-> "open",
                            exc |-> IF r.st = "ok" THEN ""
                                    ELSE IF r.st = "error" THEN "Invalid number"
                                    ELSE "diverge"]
                /\ UNCHANGED <<loc, files>>
    /\ DocFrame

\* cfg.open(path);
Open(path) ==
    /\ Running
    /\ IF ~files[path].exists
       THEN /\ last' = [op |-> "open", exc |-> "Cannot open file"]
            /\ UNCHANGED <<heap, loc, data, filepath, opened, files>>
       ELSE LET r == parse_content(files[path].content, Release(heap, Roots(loc, EmptyMap)))
            IN  /\ data' = r.data
                /\ heap' = Release(r.heap, Roots(loc, data'))
                /\ Cardinality(Live(heap')) <= MaxHandles
                /\ IF r.st = "ok"
                   THEN filepath' = [has |-> TRUE, path |-> path] /\ opened' = TRUE
                   ELSE UNCHANGED <<filepath, opened>>
                /\ last' = [op |-> "open",
                            exc |-> IF r.st = "ok" THEN ""
                                    ELSE IF r.st = "error" THEN "Invalid number"
                                    ELSE "diverge"]
                /\ UNCHANGED <<loc, files>>
    /\ DocFrame

\* A faulty close: the mapping is cleared but the path stays bound.
Close_bound ==
    /\ Running
    /\ data' = EmptyMap
    /\ opened' = FALSE
    /\ heap' = Release(heap, Roots(loc, data'))
    /\ last' = [op |-> "close", exc |-> ""]
    /\ UNCHANGED <<loc, files, filepath>>
    /\ DocFrame

\* cfg.close();
Close ==
    /\ Running
    /\ data' = EmptyMap
    /\ filepath' = nullopt
    /\ opened' = FALSE
    /\ heap' = Release(heap, Roots(loc, data'))
    /\ last' = [op |-> "close", exc |-> ""]
    /\ UNCHANGED <<loc, files>>
    /\ DocFrame

\* A faulty save(path): the path written becomes the bound path.
SaveAs_binding(path) ==
    /\ Running
    /\ path \in Creatable
    /\ files' = [files EXCEPT ![path] =
                    [exists |-> TRUE, content |-> SaveLines(heap, data, InOrder(DOMAIN data))]]
    /\ filepath' = [has |-> TRUE, path |-> path]
    /\ last' = [op |-> "save", exc |-> ""]
    /\ UNCHANGED <<heap, loc, data, opened>>
    /\ DocFrame

\* The keys of d in the order of their first appearance in log.
RECURSIVE FirstSeen(_, _, _)
FirstSeen(log, d, seen) ==
    IF log = <<>> THEN <<>>
    ELSE IF log[1] \in DOMAIN d /\ log[1] \notin seen
    THEN <<log[1]>> \o FirstSeen(Tail(log), d, seen \cup {log[1]})
    ELSE FirstSeen(Tail(log), d, seen)

\* A faulty save(path): the mapping keeps its keys in insertion order (text is
\* the log of the names set).
SaveAs_inserted(path) ==
    /\ Running
    /\ IF path \in Creatable
       THEN /\ files' = [files EXCEPT ![path] =
                            [exists |-> TRUE,
                             content |-> SaveLines(heap, data, FirstSeen(text, data, {}))]]
            /\ last' = [op |-> "save", exc |-> ""]
       ELSE /\ last' = [op |-> "save", exc |-> "Cannot save to file"]
            /\ UNCHANGED files
    /\ UNCHANGED <<heap, loc, data, filepath, opened>>
    /\ DocFrame

\* cfg.save(path);
SaveAs(path) ==
    /\ Running
    /\ IF path \in Creatable
       THEN /\ files' = [files EXCEPT ![path] =
                            [exists |-> TRUE,
                             content |-> SaveLines(heap, data, InOrder(DOMAIN data))]]
            /\ last' = [op |-> "save", exc |-> ""]
       ELSE /\ last' = [op |-> "save", exc |-> "Cannot save to file"]
            /\ UNCHANGED files
    /\ UNCHANGED <<heap, loc, data, filepath, opened>>
    /\ DocFrame

\* cfg.save();
Save ==
    IF filepath.has THEN SaveAs(filepath.path)
    ELSE /\ Running
         /\ last' = [op |-> "save", exc |-> "No filepath specified"]
         /\ UNCHANGED <<heap, loc, data, filepath, opened, files>>
         /\ DocFrame

\* x = cfg.get(name);
Get(name) ==
    LET r == get(data, name)
    IN  /\ Running
        /\ data' = r.data
        /\ loc' = [loc EXCEPT !["x"] = r.val]
        /\ heap' = Release(heap, Roots(loc', data'))
        /\ last' = [op |-> "get", exc |-> ""]
        /\ UNCHANGED <<filepath, opened, files>>
        /\ DocFrame

\* x = cfg[name];   Config::operator[] returns get(name).
Index(name) ==
    LET r == get(data, name)
    IN  /\ Running
        /\ data' = r.data
        /\ loc' = [loc EXCEPT !["x"] = r.val]
        /\ heap' = Release(heap, Roots(loc', data'))
        /\ last' = [op |-> "operator[]", exc |-> ""]
        /\ UNCHANGED <<filepath, opened, files>>
        /\ DocFrame

\* cfg.set(name, value);   for a scalar value
Set(name, value) ==
    LET r == set(heap, data, name, value)
    IN  /\ Running
        /\ data' = r.data
        /\ heap' = Release(r.heap, Roots(loc, data'))
        /\ last' = [op |-> "set", exc |-> ""]
        /\ UNCHANGED <<loc, filepath, opened, files>>
        /\ DocFrame

\* cfg.set(name, std::vector<ConfigObject>{...});
SetVector(name, arr) ==
    LET o == ConfigObject_vector(heap, arr)
        r == set(o.heap, data, name, o.val)
    IN  /\ Running
        /\ data' = r.data
        /\ heap' = Release(r.heap, Roots(loc, data'))
        /\ Cardinality(Live(heap')) <= MaxHandles
        /\ last' = [op |-> "set", exc |-> ""]
        /\ UNCHANGED <<loc, filepath, opened, files>>
        /\ DocFrame

\* cfg.add(name, value);
Add(name, value) ==
    LET r == add_impl(heap, data, name, value)
    IN  /\ Running
        /\ data' = r.data
        /\ heap' = Release(r.heap, Roots(loc, data'))
        /\ Cardinality(Live(heap')) <= MaxHandles
        /\ last' = [op |-> "add", exc |-> ""]
        /\ UNCHANGED <<loc, filepath, opened, files>>
        /\ DocFrame

\* cfg.remove(name);
Remove(name) ==
    /\ Running
    /\ data' = MapErase(data, name)
    /\ heap' = Release(heap, Roots(loc, data'))
    /\ last' = [op |-> "remove", exc |-> ""]
    /\ UNCHANGED <<loc, filepath, opened, files>>
    /\ DocFrame

Init ==
    /\ heap = <<>>
    /\ loc = [x \in Locals |-> ConfigObject_None]
    /\ data = EmptyMap
    /\ filepath = nullopt
    /\ opened = FALSE
    /\ \E f \in {NoFile} \cup {[exists |-> TRUE, content |-> t] : t \in FileTexts} :
          files = [NoFiles EXCEPT !["p"] = f]
    /\ text = <<>>
    /\ res = NoRes
    /\ last = NoOp
    /\ version = NoVersion

Next ==
    \/ \E path \in Paths : Open(path)
    \/ Close
    \/ Save
    \/ \E path \in Paths : SaveAs(path)
    \/ \E name \in Keys : Get(name)
    \/ \E name \in Keys : Index(name)
    \/ \E name \in Keys, value \in DocValues : Set(name, value)
    \/ \E name \in Keys, arr \in DocVectors : SetVector(name, arr)
    \/ \E name \in Keys, value \in DocValues : Add(name, value)
    \/ \E name \in Keys : Remove(name)

Spec == Init /\ [][Next]_vars

\* The top-level mappings d1 over h1 and d2 over h2 hold structurally equal
\* values under the same keys.
SameDoc(h1, d1, h2, d2) ==
    /\ DOMAIN d1 = DOMAIN d2
    /\ \A k \in DOMAIN d1 : StructEq(h1, d1[k], h2, d2[k])

\* C3: when open(path) fails because parsing the file's text raises the invalid
\* number error, the top-level mapping afterwards is either the mapping held
\* before the call or empty, never the pairs parsed before the bad token.
C3_FailedOpenAtomic ==
    [][\A path \in Paths :
          Open(path) /\ last'.exc = "Invalid number"
            => SameDoc(heap, data, heap', data') \/ data' = EmptyMap
      ]_vars

\* C4: add(name, v) when name holds an Array appends v to that Array in place:
\* afterwards name holds an Array one longer, whose last element is v and whose
\* earlier elements are unchanged.
C4_AddAppends ==
    [][\A name \in Keys, v \in DocValues :
          Add(name, v) /\ name \in DOMAIN data /\ is_array(data[name])
            => /\ name \in DOMAIN data' /\ is_array(data'[name])
               /\ heap'[data'[name].ptr].vec = Append(heap[data[name].ptr].vec, v)
      ]_vars

\* C5: add(name, v) when name is absent or holds a non-Array value leaves name
\* holding exactly v, the same result as set(name, v), and wraps nothing in an
\* Array; in particular add(k, 2) on k = Integer 1 ends with k = Integer 2.
C5_AddLikeSet ==
    [][\A name \in Keys, v \in DocValues :
          Add(name, v) /\ ~(name \in DOMAIN data /\ is_array(data[name]))
            => /\ data' = set(heap, data, name, v).data
               /\ data'[name] = v
               /\ heap' = Release(heap, Roots(loc, data'))
      ]_vars

\* add(k, 2) has run on k = Integer 1 (or absent): k holds Integer 2 and the
\* other key still holds an Array.
C5_Witness ==
    /\ last.op = "add"
    /\ DOMAIN data = Keys
    /\ data[<<"a">>] = ConfigObject_ll(2)
    /\ is_array(data[<<"b">>])

\* Tag and payload of v agree, and a container tag comes with a live handle of
\* its kind.
Consistent(h, v) ==
    /\ v.alt = AltOf(v.type)
    /\ v.type = "OBJECT" => v.ptr \in Live(h) /\ h[v.ptr].kind = "map"
    /\ v.type = "ARRAY" => v.ptr \in Live(h) /\ h[v.ptr].kind = "vec"

\* Every value reachable over heap h from the values in roots.
Reachable(h, roots) ==
    roots \cup UNION {{h[i].map[k] : k \in DOMAIN h[i].map}
                          \cup {h[i].vec[j] : j \in 1..Len(h[i].vec)} : i \in 1..Len(h)}

C10_GetReadOnly ==
    [][\A name \in Keys :
          Get(name) \/ Index(name)
            => /\ last'.exc = ""
               /\ loc'["x"] = IF name \in DOMAIN data THEN data[name] ELSE ConfigObject_None
               /\ DOMAIN data' = DOMAIN data
               /\ data' = data
               /\ filepath' = filepath
               /\ opened' = opened
      ]_vars

\* get has returned None for a key absent from an open Document, which is still
\* without that key.
C10_Witness ==
    /\ last.op = "get"
    /\ opened /\ filepath.has
    /\ <<"b">> \notin DOMAIN data /\ <<"a">> \in DOMAIN data
    /\ loc["x"] = ConfigObject_None

\* C11: open(path) on a path that cannot be read raises an error and leaves the
\* Document as it was: the same top-level mapping, the same bound path and the
\* same is_open(); a Document never opened still reports is_open() false.
C11_UnreadableOpen ==
    [][\A path \in Paths :
          last'.op = "open" /\ ~files[path].exists /\ Open(path)
            => /\ last'.exc = "Cannot open file"
               /\ data' = data /\ heap' = heap
               /\ filepath' = filepath
               /\ opened' = opened
      ]_vars

\* open has failed on an unreadable path while the Document was open with keys.
C11_Witness ==
    /\ last = [op |-> "open", exc |-> "Cannot open file"]
    /\ opened /\ filepath = [has |-> TRUE, path |-> "p"]
    /\ DOMAIN data = Keys

\* C12: a successful open(path) replaces the whole top-level mapping by the pairs
\* parsed from the file (a key held before and not in the file does not
\* survive), binds path and sets is_open() to true.
C12_OpenReplaces ==
    [][\A path \in Paths :
          last' = [op |-> "open", exc |-> ""] /\ files[path].exists /\ Open(path)
            => LET r == parse_content(files[path].content, <<>>)
               IN  /\ files[path].exists /\ r.st = "ok"
                   /\ SameDoc(heap', data', r.heap, r.data)
                   /\ filepath' = [has |-> TRUE, path |-> path]
                   /\ opened' = TRUE
      ]_vars

\* open has succeeded on a file with the single key a; the key b, whose value 2
\* the caller had read into x, is gone.
C12_Witness ==
    /\ last = [op |-> "open", exc |-> ""]
    /\ opened /\ filepath.has
    /\ DOMAIN data = {<<"a">>}
    /\ loc["x"] = ConfigObject_ll(2)

\* C13: close() clears every top-level key, unbinds the file path and sets
\* is_open() to false; in the state it leaves, get(name) returns None for every
\* name; and save() with no argument fails with an error as long as no path is
\* bound, which only a later successful open changes.
C13_Close ==
    [][/\ last'.op = "close" /\ Close
            => /\ data' = EmptyMap /\ filepath' = nullopt /\ opened' = FALSE
               /\ \A name \in Keys : get(data', name).val = ConfigObject_None
       /\ ~filepath.has /\ last'.op = "save" /\ Save
            => /\ last'.exc = "No filepath specified"
               /\ UNCHANGED <<heap, loc, data, filepath, opened, files>>
       /\ ~filepath.has /\ filepath'.has => last' = [op |-> "open", exc |-> ""]
      ]_vars

\* close has run on a Document that held the value 2 (read into x before): the
\* mapping is empty, no path is bound and the Document is not open.
C13_Witness ==
    /\ last.op = "close"
    /\ data = EmptyMap /\ filepath = nullopt /\ ~opened
    /\ loc["x"] = ConfigObject_ll(2)
    /\ files["p"].exists

\* C14: save() with no argument fails with an error whenever no path is bound
\* and otherwise writes to the bound path; save(path) writes to the given path
\* whether or not a path is bound; neither form changes the bound path, the open
\* flag or the top-level mapping.
C14_SaveFrame ==
    [][/\ last'.op = "save" /\ Save
            => IF filepath.has
               THEN /\ last'.exc = ""
                    /\ files' = [files EXCEPT ![filepath.path] =
                                    [exists |-> TRUE,
                                     content |-> SaveLines(heap, data, InOrder(DOMAIN data))]]
               ELSE last'.exc = "No filepath specified" /\ files' = files
       /\ \A path \in Paths :
            last'.op = "save" /\ SaveAs(path)
                => IF path \in Creatable
                   THEN /\ last'.exc = ""
                        /\ files' = [files EXCEPT ![path] =
                                        [exists |-> TRUE,
                                         content |-> SaveLines(heap, data, InOrder(DOMAIN data))]]
                   ELSE last'.exc = "Cannot save to file" /\ files' = files
       /\ last'.op = "save" /\ (Save \/ \E path \in Paths : SaveAs(path))
            => UNCHANGED <<filepath, opened, data, heap>>
      ]_vars

\* save(path) has written a Document of two keys while no path is bound.
C14_Witness ==
    /\ last = [op |-> "save", exc |-> ""]
    /\ filepath = nullopt /\ ~opened
    /\ DOMAIN data = Keys
    /\ files["p"] = [exists |-> TRUE, content |-> SaveLines(heap, data, InOrder(DOMAIN data))]

(***************************************************************************)
(* The typed getters as functions of a value: x is any value a program can *)
(* build and one getter is called on it.  res holds the std::optional      *)
(* returned: st is "value" or "nullopt", or "undefined" when the call had  *)
(* undefined behaviour, and val the value returned.                        *)
(***************************************************************************)
GetFloats ==
    {ConfigObject_double(f) :
        f \in {[m |-> 15, e |-> -1], [m |-> -27, e |-> -1], [m |-> 1, e |-> 2],
               [m |-> 5, e |-> -1], [m |-> 0, e |-> 0], [m |-> 1, e |-> 30]}}

\* What a cast with undefined behaviour may return.
UndefinedLL == {-1, 0, 1}

InitGet ==
    /\ \E t \in Tree0 \cup Tree1 \cup {[heap |-> <<>>, val |-> v] : v \in GetFloats} :
          /\ heap = t.heap
          /\ loc = [x \in Locals |-> IF x = "x" THEN t.val ELSE ConfigObject_None]
    /\ text = <<>>
    /\ res = NoRes
    /\ data = EmptyMap
    /\ filepath = nullopt
    /\ opened = FALSE
    /\ files = NoFiles
    /\ last = NoOp
    /\ version = NoVersion

Returned(op, has, val) ==
    /\ ~res.done
    /\ res' = [NoRes EXCEPT !.done = TRUE, !.st = IF has THEN "value" ELSE "nullopt", !.val = val]
    /\ last' = [op |-> op, exc |-> ""]
    /\ UNCHANGED <<heap, loc, data, filepath, opened, files, text, version>>

\* x.as_number();
As_number ==
    LET r == get_as_ll(loc["x"])
    IN  IF r.ub
        THEN /\ ~res.done
             /\ \E n \in UndefinedLL :
                   res' = [NoRes EXCEPT !.done = TRUE, !.st = "undefined",
                                        !.val = ConfigObject_ll(n)]
             /\ last' = [op |-> "as_number", exc |-> ""]
             /\ UNCHANGED <<heap, loc, data, filepath, opened, files, text, version>>
        ELSE Returned("as_number", r.has, ConfigObject_ll(r.val))

\* x.as_float();
As_float ==
    LET r == get_as_double(loc["x"])
    IN  Returned("as_float", r.has, ConfigObject_double(r.val))

\* x.as_boolean();
As_boolean ==
    LET r == get_as_bool(loc["x"])
    IN  Returned("as_boolean", r.has, ConfigObject_bool(r.val))

\* x.as_string();
As_string ==
    LET r == get_as_string(loc["x"])
    IN  Returned("as_string", r.has, ConfigObject_string(r.val))

\* x.as_character();
As_character ==
    LET r == get_as_char(loc["x"])
    IN  Returned("as_character", r.has, ConfigObject_char(r.val))

NextGet == As_number \/ As_float \/ As_boolean \/ As_string \/ As_character

SpecGet == InitGet /\ [][NextGet]_vars

Value(val) == [NoRes EXCEPT !.done = TRUE, !.st = "value", !.val = val]
Nullopt(val) == [NoRes EXCEPT !.done = TRUE, !.st = "nullopt", !.val = val]

\* The result the coercion rules give for the getter op on the value v.
Coerced(op, v) ==
    CASE op = "as_number" ->
            (IF v.type = "NUMBER" THEN Value(v)
             ELSE IF v.type = "FLOAT" /\ FitsLL(v.flt)
             THEN Value(ConfigObject_ll(Truncate(v.flt)))
             ELSE IF v.type = "FLOAT" THEN Value(Blank)
             ELSE Nullopt(ConfigObject_ll(0)))
      [] op = "as_float" ->
            (IF v.type = "FLOAT" THEN Value(v)
             ELSE IF v.type = "NUMBER" THEN Value(ConfigObject_double(Normal(v.num, 0)))
             ELSE Nullopt(ConfigObject_double([m |-> 0, e |-> 0])))
      [] op = "as_boolean" ->
            (IF v.type = "BOOLEAN" THEN Value(v) ELSE Nullopt(ConfigObject_bool(FALSE)))
      [] op = "as_string" ->
            (IF v.type = "STRING" THEN Value(v)
             ELSE IF v.type = "CHARACTER" THEN Value(ConfigObject_string(<<v.chr>>))
             ELSE Nullopt(ConfigObject_string(<<>>)))
      [] op = "as_character" ->
            (IF v.type = "CHARACTER" THEN Value(v)
             ELSE IF v.type = "STRING" /\ Len(v.str) = 1 THEN Value(ConfigObject_char(v.str[1]))
             ELSE Nullopt(ConfigObject_char("NUL")))

\* C15: the typed getters never throw and return no value except when the type
\* requested is the tag, or Float is requested from Integer (widening), Integer
\* from Float (the value truncated toward zero), String from Character (a
\* string of length 1), Character from a String of length 1; every other pair,
\* and every request on None, Object or Array, returns no value.
C15_TypedGetters == res.done => last.exc = "" /\ res = Coerced(last.op, loc["x"])

\* The part of C15 that the code keeps: every call but Integer from a Float
\* whose truncated value is no long long.
C15_DefinedGetters ==
    res.done /\ ~(last.op = "as_number" /\ get_as_ll(loc["x"]).ub)
        => last.exc = "" /\ res = Coerced(last.op, loc["x"])

\* The text the Writer's rules give for an Array of scalars written at indent 0:
\* [] when empty, [e1, e2, e3] on one line up to 3 elements, and otherwise one
\* element per line, indented by 4 spaces, between "[" and "]".
RECURSIVE Joined(_, _)
Joined(parts, sep) ==
    IF parts = <<>> THEN <<>>
    ELSE IF Len(parts) = 1 THEN parts[1]
    ELSE parts[1] \o sep \o Joined(Tail(parts), sep)

ArrayText(h, vec) ==
    IF vec = <<>> THEN <<"[", "]">>
    ELSE IF Len(vec) <= 3
    THEN <<"[">> \o Joined([i \in 1..Len(vec) |-> write_value(h, vec[i], 0, TRUE)], <<",", " ">>)
             \o <<"]">>
    ELSE <<"[", "\n">>
             \o Joined([i \in 1..Len(vec) |->
                           <<" ", " ", " ", " ">> \o write_value(h, vec[i], 1, FALSE)],
                       <<",", "\n">>)
             \o <<"\n", "]">>

\* C16: the Writer writes an empty Array as [], a non-empty Array of 3 or fewer
\* elements on a single line as [e1, e2, e3], and an Array of 4 or more elements
\* on several lines with exactly one element per line.
C16_InlineThreshold ==
    res.done /\ is_array(loc["x"])
             /\ (\A i \in 1..Len(heap[loc["x"].ptr].vec) : ~IsContainer(heap[loc["x"].ptr].vec[i]))
        => text = ArrayText(heap, heap[loc["x"].ptr].vec)

(***************************************************************************)
(* The writer followed by the parser, on Float values.                     *)
(***************************************************************************)
MaxMantissa == 12
MaxExponent == 6

RoundFloats ==
    {ConfigObject_double(Normal(m, e)) :
        m \in (0 - MaxMantissa)..MaxMantissa, e \in (0 - MaxExponent)..MaxExponent}

InitFloat ==
    /\ \E v \in RoundFloats :
          loc = [x \in Locals |-> IF x = "x" THEN v ELSE ConfigObject_None]
    /\ heap = <<>>
    /\ text = <<>>
    /\ res = NoRes
    /\ data = EmptyMap
    /\ filepath = nullopt
    /\ opened = FALSE
    /\ files = NoFiles
    /\ last = NoOp
    /\ version = NoVersion

SpecFloat == InitFloat /\ [][NextRound]_vars

\* C17: the text the Writer produces for a Float-tagged Value, also one of
\* integral value such as 1.0 or 100.0, is parsed back as a Float-tagged Value,
\* never as an Integer-tagged one.
C17_FloatStaysFloat ==
    res.done /\ loc["x"].type = "FLOAT" => res.st = "ok" /\ res.val.type = "FLOAT"

\* The Floats that do come back as the Float written: those written with a
\* decimal point.
C17_PointedFloats ==
    res.done /\ loc["x"].type = "FLOAT" /\ (\E i \in 1..Len(text) : text[i] = ".")
        => res.st = "ok" /\ res.val = loc["x"]

(***************************************************************************)
(* Strings: a payload written and parsed back, and a double-quoted literal *)
(* parsed and written back (res.out is the text written back).             *)
(***************************************************************************)
StringAlphabet == {"a", "n", "\"", "\\", "\n", "\t", "\r"}
StringPayloads == Texts(StringAlphabet, MaxIndex + 1)

\* What stands between the quotes of a literal: characters written as they
\* are, and the five escapes.
RawItems == {<<"a">>, <<"n">>, <<"\n">>, <<"\t">>}
EscapeItems ==
    {<<"\\", "n">>, <<"\\", "t">>, <<"\\", "r">>, <<"\\", "\\">>, <<"\\", "\"">>}

RECURSIVE Flat(_)
Flat(items) == IF items = <<>> THEN <<>> ELSE items[1] \o Flat(Tail(items))

Literals ==
    {<<"\"">> \o Flat(items) \o <<"\"">> : items \in Texts(RawItems \cup EscapeItems, MaxIndex + 1)}

InitString ==
    /\ \E str \in StringPayloads, lit \in Literals :
          /\ str = <<>> \/ lit = <<"\"", "\"">>
          /\ loc = [x \in Locals |-> IF x = "x" THEN ConfigObject_string(str)
                                     ELSE ConfigObject_None]
          /\ text = lit
    /\ heap = <<>>
    /\ res = NoRes
    /\ data = EmptyMap
    /\ filepath = nullopt
    /\ opened = FALSE
    /\ files = NoFiles
    /\ last = NoOp
    /\ version = NoVersion

\* parse_value on the text, then write_value on the value parsed.
Reparse ==
    LET r == parse_value(text, 0, <<>>)
    IN  /\ ~res.done
        /\ res' = [done |-> TRUE, st |-> r.st, data |-> EmptyMap, val |-> r.val,
                   heap |-> Release(r.heap, {r.val}), tok |-> r.tok,
                   out |-> IF r.st = "ok" THEN write_value(r.heap, r.val, 0, FALSE) ELSE <<>>]
        /\ last' = [op |-> "reparse", exc |-> IF r.st = "error" THEN "Invalid number" ELSE ""]
        /\ UNCHANGED <<heap, loc, data, filepath, opened, files, text, version>>

NextString == RoundTrip \/ Reparse

SpecString == InitString /\ [][NextString]_vars

NoRawControl(lit) == \A i \in 1..Len(lit) : lit[i] \notin {"\n", "\t", "\r"}

\* C18 as stated: every String payload (newline, tab, carriage return, backslash
\* and double quote included) written and parsed back is the same String; and
\* every double-quoted literal using only the escapes \n \t \r \\ \" parsed and
\* written back is the identical text.
C18_AnyLiteral ==
    /\ res.done /\ last.op = "round_trip" => res.st = "ok" /\ res.val = loc["x"]
    /\ res.done /\ last.op = "reparse" => res.st = "ok" /\ res.out = text

\* C18: every String payload written and parsed back is the same String; and
\* every double-quoted literal that uses only the escapes \n \t \r \\ \" and
\* holds no newline, tab or carriage return as itself, parsed and written back,
\* is the identical text.
C18_EscapeFidelity ==
    /\ res.done /\ last.op = "round_trip" => res.st = "ok" /\ res.val = loc["x"]
    /\ res.done /\ last.op = "reparse" /\ NoRawControl(text) => res.st = "ok" /\ res.out = text

\* The literal "\n\"" (an escaped newline and an escaped quote) was parsed to the
\* two-character String and written back as the same text.
C18_Witness ==
    /\ last.op = "reparse"
    /\ text = <<"\"", "\\", "n", "\\", "\"", "\"">>
    /\ res.val = ConfigObject_string(<<"\n", "\"">>)
    /\ res.out = text

(***************************************************************************)
(* Numeric tokens: parse_value on every text over NumberAlphabet of at     *)
(* most MaxLen characters.                                                 *)
(***************************************************************************)
NumberAlphabet == {"1", "5", ".", "e", "E", "-", "+", "a"}

InitNumber ==
    /\ text \in Texts(NumberAlphabet, MaxLen)
    /\ res = NoRes
    /\ heap = <<>>
    /\ loc = [x \in Locals |-> ConfigObject_None]
    /\ data = EmptyMap
    /\ filepath = nullopt
    /\ opened = FALSE
    /\ files = NoFiles
    /\ last = NoOp
    /\ version = NoVersion

SpecNumber == InitNumber /\ [][Reparse]_vars

\* The text starts a numeric token, and the token gathered from it.
StartsNumber(c) == c # <<>> /\ (isdigit(c[1]) \/ c[1] \in {"-", "+"})

Token(c) ==
    NumberBody(c, IF c[1] \in {"-", "+"} THEN 1 ELSE 0,
               IF c[1] \in {"-", "+"} THEN <<c[1]>> ELSE <<>>, FALSE).tok

\* tok is, as a whole, a decimal integer or float: an optional sign, digits with
\* an optional point (one digit at least), and an optional exponent e/E with an
\* optional sign and one digit at least.
WellFormed(tok) ==
    LET start == IF tok # <<>> /\ tok[1] \in {"+", "-"} THEN 2 ELSE 1
        ni == DigitRun(tok, start)
        dot == start + ni
        hasDot == dot <= Len(tok) /\ tok[dot] = "."
        nf == IF hasDot THEN DigitRun(tok, dot + 1) ELSE 0
        ex == IF hasDot THEN dot + 1 + nf ELSE dot
        hasE == ex <= Len(tok) /\ tok[ex] \in {"e", "E"}
        exSigned == hasE /\ ex + 1 <= Len(tok) /\ tok[ex + 1] \in {"+", "-"}
        exStart == IF exSigned THEN ex + 2 ELSE ex + 1
        ne == IF hasE THEN DigitRun(tok, exStart) ELSE 0
    IN  /\ ni + nf > 0
        /\ IF hasE THEN ne > 0 /\ exStart + ne - 1 = Len(tok) ELSE ex - 1 = Len(tok)

HasMarker(tok) == \E i \in 1..Len(tok) : tok[i] \in {".", "e", "E"}

\* C19: a numeric token is parsed as a Float when it holds a decimal point or an
\* exponent marker e/E, and as an Integer otherwise: 1e5 and 1E5 give Float
\* Values just as 1.5 does.
C19_Classification ==
    res.done /\ StartsNumber(text) /\ WellFormed(Token(text))
        => /\ res.st = "ok"
           /\ res.val.type = IF HasMarker(Token(text)) THEN "FLOAT" ELSE "NUMBER"

\* What the code does: the token is a Float exactly when it holds a point.
C19_PointOnly ==
    res.done /\ StartsNumber(text) /\ WellFormed(Token(text))
        => /\ res.st = "ok"
           /\ res.val.type = IF \E i \in 1..Len(Token(text)) : Token(text)[i] = "."
                             THEN "FLOAT" ELSE "NUMBER"

\* C20: a parse call raises an error exactly when a numeric token does not form
\* a valid integer or float (a lone -, 1-5, 5e), the error carrying that token;
\* no other malformed input raises an error.
C20_ErrorExactly ==
    res.done
        => IF StartsNumber(text)
           THEN /\ res.st = "error" <=> ~WellFormed(Token(text))
                /\ res.st = "error" => res.tok = Token(text)
           ELSE res.st = "ok"

\* What the code does: the error is raised exactly when the token, after its
\* sign, starts with no digit (nor, with a point in it, with a point followed by
\* a digit), and it carries the token.
C20_NoDigitOnly ==
    res.done
        => IF StartsNumber(text)
           THEN LET tok == Token(text)
                    start == IF tok[1] \in {"+", "-"} THEN 2 ELSE 1
                    digit == DigitRun(tok, start) > 0
                    point == /\ start <= Len(tok) /\ tok[start] = "."
                             /\ DigitRun(tok, start + 1) > 0
                             /\ \E i \in 1..Len(tok) : tok[i] = "."
                IN  /\ res.st = "error" <=> ~(digit \/ point)
                    /\ res.st = "error" => res.tok = tok
           ELSE res.st = "ok"

(***************************************************************************)
(* Comments before top-level keys: parse_content on texts made of comments,*)
(* blank space and key/value pairs.                                        *)
(***************************************************************************)
CommentItems ==
    { <<"/", "/", " ", "n", "o", "t", "e", "\n">>, <<"/", "/", "\n">>,
      <<"/", "*", " ", "a", ":", "*", "/">>, <<"/", "*", "*", "/">> }

PairItems == { <<"k", "e", "y", ":", " ", "1">>, <<"b", ":", " ", "2", "\n">>, <<" ">> }

MaxItems == 3

ItemSeqs(items, n) == UNION {[1..k -> items] : k \in 0..n}

\* The items that are not comments, in their order.
Strip(items) == SelectSeq(items, LAMBDA it : it \notin CommentItems)

InitComment ==
    /\ text \in {Flat(items) : items \in ItemSeqs(CommentItems \cup PairItems, MaxItems)}
    /\ res = NoRes
    /\ heap = <<>>
    /\ loc = [x \in Locals |-> ConfigObject_None]
    /\ data = EmptyMap
    /\ filepath = nullopt
    /\ opened = FALSE
    /\ files = NoFiles
    /\ last = NoOp
    /\ version = NoVersion

SpecComment == InitComment /\ [][NextParse]_vars

\* C21: any number of // line comments and /* */ block comments before a
\* top-level key are skipped and leave no trace: the text parses without an
\* error to the mapping that the text without its comments parses to.
C21_TopLevelComments ==
    res.done =>
        \A items \in ItemSeqs(CommentItems \cup PairItems, MaxItems) :
            text = Flat(items) =>
                /\ res.st = "ok"
                /\ res.data = parse_content(Flat(Strip(items)), <<>>).data

\* The text // note, newline, key: 1 has given the one key "key" with Integer 1.
C21_Witness ==
    /\ res.done
    /\ text = <<"/", "/", " ", "n", "o", "t", "e", "\n", "k", "e", "y", ":", " ", "1">>
    /\ res.st = "ok"
    /\ DOMAIN res.data = {<<"k", "e", "y">>}
    /\ res.data[<<"k", "e", "y">>] = ConfigObject_ll(1)

(***************************************************************************)
(* Comments at token boundaries: parse_content on token sequences with one *)
(* comment put between two tokens, before the first or after the last.     *)
(***************************************************************************)
TokenTexts ==
    { << <<"o">>, <<":">>, <<" ">>, <<"{">>, <<"a">>, <<":">>, <<" ">>, <<"1">>, <<",">>,
         <<"b">>, <<":">>, <<"2">>, <<"}">>, <<"\n">> >>,
      << <<"a">>, <<":">>, <<" ">>, <<"1">>, <<",">>, <<"b">>, <<":">>, <<" ">>,
         <<"[">>, <<"1">>, <<",">>, <<"2">>, <<"]">>, <<"\n">> >> }

\* The text of the tokens with com put after the first i of them.
Inserted(tokens, i, com) ==
    Flat(SubSeq(tokens, 1, i)) \o com \o Flat(SubSeq(tokens, i + 1, Len(tokens)))

InitBoundary ==
    /\ text \in {Inserted(tokens, i, com) :
                    tokens \in TokenTexts, i \in 0..14, com \in CommentItems \cup {<<>>}}
    /\ res = NoRes
    /\ heap = <<>>
    /\ loc = [x \in Locals |-> ConfigObject_None]
    /\ data = EmptyMap
    /\ filepath = nullopt
    /\ opened = FALSE
    /\ files = NoFiles
    /\ last = NoOp
    /\ version = NoVersion

SpecBoundary == InitBoundary /\ [][NextParse]_vars

\* C22: a comment at any token boundary (before a key of a nested object, between
\* the colon and the value, after a value before the separator) is skipped: the
\* text parses to what the text without the comment parses to.
C22_EveryBoundary ==
    res.done =>
        \A tokens \in TokenTexts, i \in 0..14, com \in CommentItems :
            text = Inserted(tokens, i, com) =>
                /\ res.st = "ok"
                /\ LET r == parse_content(Flat(tokens), <<>>)
                   IN  SameDoc(res.heap, res.data, r.heap, r.data)

\* What the code does: only a comment before a top-level key (or after the last
\* top-level pair) is skipped.
C22_TopLevelOnly ==
    res.done =>
        \A tokens \in TokenTexts, i \in {0, 14}, com \in CommentItems :
            text = Inserted(tokens, i, com) =>
                /\ res.st = "ok"
                /\ LET r == parse_content(Flat(tokens), <<>>)
                   IN  SameDoc(res.heap, res.data, r.heap, r.data)

(***************************************************************************)
(* Truncated input: parse_content on every prefix of complete texts.       *)
(***************************************************************************)
\* key: [1, 2]   k: {a: 1, b: [true, -2]}   k: [{a: None}, [2.5]]
\* k: {o: {a: false}, b: 5}
CompleteTexts ==
    {
      <<"k", "e", "y", ":", " ", "[", "1", ",", " ", "2", "]">>,
      <<"k", ":", " ", "{", "a", ":", " ", "1", ",", " ", "b", ":", " ", "[", "t",
        "r", "u", "e", ",", " ", "-", "2", "]", "}">>,
      <<"k", ":", " ", "[", "{", "a", ":", " ", "N", "o", "n", "e", "}", ",", " ",
        "[", "2", ".", "5", "]", "]">>,
      <<"k", ":", " ", "{", "o", ":", " ", "{", "a", ":", " ", "f", "a", "l", "s",
        "e", "}", ",", " ", "b", ":", " ", "5", "}">> }

InitTruncated ==
    /\ text \in UNION {{SubSeq(c, 1, n) : n \in 0..Len(c)} : c \in CompleteTexts}
    /\ res = NoRes
    /\ heap = <<>>
    /\ loc = [x \in Locals |-> ConfigObject_None]
    /\ data = EmptyMap
    /\ filepath = nullopt
    /\ opened = FALSE
    /\ files = NoFiles
    /\ last = NoOp
    /\ version = NoVersion

SpecTruncated == InitTruncated /\ [][NextParse]_vars

\* The brackets and braces that c leaves open, innermost first, as the closing
\* characters they lack.
RECURSIVE Closers(_, _, _)
Closers(c, i, stack) ==
    IF i > Len(c) THEN stack
    ELSE IF c[i] = "[" THEN Closers(c, i + 1, <<"]">> \o stack)
    ELSE IF c[i] = "{" THEN Closers(c, i + 1, <<"}">> \o stack)
    ELSE IF c[i] \in {"]", "}"} THEN Closers(c, i + 1, Tail(stack))
    ELSE Closers(c, i + 1, stack)

\* c ends inside an array or object.
Truncated(c) == Closers(c, 1, <<>>) # <<>>

\* C23: when the input ends inside an array or object, the parser raises no
\* error and returns the containers with every element or pair completed before
\* the end, as if the missing closing characters were there; key: [1, 2 yields
\* key = Array [1, 2].
C23_ForgivingTruncation ==
    res.done /\ Truncated(text) =>
        /\ res.st = "ok"
        /\ LET r == parse_content(text \o Closers(text, 1, <<>>), <<>>)
           IN  SameDoc(res.heap, res.data, r.heap, r.data)

\* What the code does: whenever the call returns, it returns what the text with
\* the missing closing characters added parses to.
C23_WhenReturns ==
    res.done /\ Truncated(text) /\ res.st = "ok" =>
        LET r == parse_content(text \o Closers(text, 1, <<>>), <<>>)
        IN  r.st = "ok" /\ SameDoc(res.heap, res.data, r.heap, r.data)

\* key: [1, 2 has given key = Array [1, 2].
C23_Example ==
    res.done /\ text = <<"k", "e", "y", ":", " ", "[", "1", ",", " ", "2">> =>
        /\ res.st = "ok"
        /\ DOMAIN res.data = {<<"k", "e", "y">>}
        /\ is_array(res.data[<<"k", "e", "y">>])
        /\ res.heap[res.data[<<"k", "e", "y">>].ptr].vec
              = <<ConfigObject_ll(1), ConfigObject_ll(2)>>

(***************************************************************************)
(* Strict access.                                                          *)
(***************************************************************************)
\* The Value held by x is the same before and after the step: tag, alternative,
\* scalar payload and handle, the container's cell, and the tree below it.
Untouched(x) ==
    /\ loc'[x] = loc[x]
    /\ loc[x].ptr # 0 => heap'[loc[x].ptr] = heap[loc[x].ptr]
    /\ StructEq(heap, loc[x], heap', loc'[x])

\* C24: at(key) on a Value not tagged Object fails with "Not an object" and
\* at(index) on a Value not tagged Array fails with "Not an array"; and whether
\* it fails or returns, at() leaves the Value's tag and payload as they were.
C24_StrictAccess ==
    [][/\ \A x \in Locals, y \in Locals, k \in Keys :
            x # y /\ last'.op = "LoadKey" /\ LoadKey(y, x, k)
                => /\ ~is_object(loc[x]) => last'.exc = "Not an object" /\ loc' = loc
                   /\ Untouched(x)
       /\ \A x \in Locals, y \in Locals, i \in Indices :
            x # y /\ last'.op = "LoadAt" /\ LoadAt(y, x, i)
                => /\ ~is_array(loc[x]) => last'.exc = "Not an array" /\ loc' = loc
                   /\ Untouched(x)
      ]_vars

\* at(key) has just failed on a scalar or Array, at(index) on a scalar or Object.
C24_Witness ==
    /\ last.op \in {"LoadKey", "LoadAt"}
    /\ last.exc \in {"Not an object", "Not an array"}
    /\ \E x \in Locals : loc[x].type \in {"NUMBER", "STRING", "ARRAY", "OBJECT"}

(***************************************************************************)
(* Order of the saved lines: a Document filled by set calls in any order,  *)
(* then saved.  text is the log of the names set, in call order.           *)
(***************************************************************************)
OrderKeys == {<<"a">>, <<"b">>, <<"a", "b">>}
OrderValues == {ConfigObject_ll(1), ConfigObject_string(<<"\n">>)}
MaxSets == 3

\* cfg.set(name, value);   with the name added to the log
SetLogged(name, value) ==
    LET r == set(heap, data, name, value)
    IN  /\ Len(text) < MaxSets
        /\ data' = r.data
        /\ heap' = Release(r.heap, Roots(loc, data'))
        /\ text' = Append(text, name)
        /\ last' = [op |-> "set", exc |-> ""]
        /\ UNCHANGED <<loc, filepath, opened, files, res, version>>

InitOrder ==
    /\ heap = <<>>
    /\ loc = [x \in Locals |-> ConfigObject_None]
    /\ data = EmptyMap
    /\ filepath = nullopt
    /\ opened = FALSE
    /\ files = NoFiles
    /\ text = <<>>
    /\ res = NoRes
    /\ last = NoOp
    /\ version = NoVersion

NextOrder ==
    \/ \E name \in OrderKeys, value \in OrderValues : SetLogged(name, value)
    \/ \E path \in Paths : SaveAs(path)

SpecOrder == InitOrder /\ [][NextOrder]_vars

\* The lines of c: the stretches that a newline ends.
RECURSIVE Lines(_, _)
Lines(c, line) ==
    IF c = <<>> THEN IF line = <<>> THEN <<>> ELSE <<line>>
    ELSE IF c[1] = "\n" THEN <<line>> \o Lines(Tail(c), <<>>)
    ELSE Lines(Tail(c), Append(line, c[1]))

\* The characters of line before its first colon.
RECURSIVE KeyOf(_)
KeyOf(line) ==
    IF line = <<>> \/ line[1] = ":" THEN <<>> ELSE <<line[1]>> \o KeyOf(Tail(line))

\* C25: save writes one line per top-level key, in lexicographic key order,
\* whatever the order in which the keys were set: the text is a function of the
\* key/value pairs held, so two Documents holding the same pairs, filled in
\* different orders, write the same text.
C25_SaveOrder ==
    last.op = "save" /\ last.exc = "" =>
        LET c == files["p"].content
            ls == Lines(c, <<>>)
        IN  /\ c = <<>> \/ c[Len(c)] = "\n"
            /\ Len(ls) = Cardinality(DOMAIN data)
            /\ {KeyOf(ls[i]) : i \in 1..Len(ls)} = DOMAIN data
            /\ \A i \in 1..Len(ls), j \in 1..Len(ls) :
                   i < j => KeyLess(KeyOf(ls[i]), KeyOf(ls[j]))
            /\ \A i \in 1..Len(ls) :
                   ls[i] = KeyOf(ls[i]) \o <<":", " ">>
                              \o write_value(heap, data[KeyOf(ls[i])], 0, FALSE)

\* The keys were set in the order b, ab, a and the Document was saved.
C25_Witness ==
    /\ last.op = "save" /\ last.exc = ""
    /\ text = << <<"b">>, <<"a", "b">>, <<"a">> >>
    /\ Len(Lines(files["p"].content, <<>>)) = 3
    /\ KeyOf(Lines(files["p"].content, <<>>)[1]) = <<"a">>

(***************************************************************************)
(* Version strings (minecraft/version.hpp, minecraft/source/version.cpp).  *)
(***************************************************************************)
MaxFields == 3

\* The pieces of c between the separators sep.
RECURSIVE Split(_, _, _)
Split(c, sep, cur) ==
    IF c = <<>> THEN <<cur>>
    ELSE IF c[1] = sep THEN <<cur>> \o Split(Tail(c), sep, <<>>)
    ELSE Split(Tail(c), sep, Append(cur, c[1]))

\* std::regex_match(str, matches, ^(\d+)\.(\d+)(?:\.(\d+))?$): two or three
\* non-empty runs of digits with single points between them, and nothing else.
regex_match(str) ==
    LET fs == Split(str, ".", <<>>)
    IN  [matched |-> /\ Len(fs) \in {2, 3}
                     /\ \A i \in 1..Len(fs) :
                            fs[i] # <<>> /\ \A j \in 1..Len(fs[i]) : isdigit(fs[i][j]),
         groups |-> fs]

RECURSIVE StripZeros(_)
StripZeros(ds) == IF Len(ds) > 1 /\ ds[1] = "0" THEN StripZeros(Tail(ds)) ELSE ds

\* std::stoi on a run of digits: std::out_of_range above INT_MAX = 2147483647.
stoi(ds) ==
    LET sig == StripZeros(ds)
        fits == \/ Len(sig) < 10
                \/ /\ Len(sig) = 10
                   /\ \/ DigitsValue(SubSeq(sig, 1, 9)) < 214748364
                      \/ /\ DigitsValue(SubSeq(sig, 1, 9)) = 214748364
                         /\ DigitValue(sig[10]) <= 7
    IN  IF fits THEN [ok |-> TRUE, val |-> DigitsValue(sig)] ELSE [ok |-> FALSE, val |-> 0]

\* Version<VersionAfter26>::VersionData::parse: [data, exc]; data is the object
\* as the call leaves it, also when it throws.
After26_parse(d, str) ==
    LET m == regex_match(str)
        g == m.groups
        d1 == [d EXCEPT !.major = stoi(g[1]).val]
        d2 == [d1 EXCEPT !.minor = stoi(g[2]).val]
        d3 == [d2 EXCEPT !.patch = IF Len(g) = 3 THEN stoi(g[3]).val ELSE 0]
    IN  IF ~m.matched THEN [data |-> d, exc |-> "Invalid version format"]
        ELSE IF ~stoi(g[1]).ok THEN [data |-> d, exc |-> "out_of_range"]
        ELSE IF ~stoi(g[2]).ok THEN [data |-> d1, exc |-> "out_of_range"]
        ELSE IF Len(g) = 3 /\ ~stoi(g[3]).ok THEN [data |-> d2, exc |-> "out_of_range"]
        ELSE IF d3.major < 26 THEN [data |-> d3, exc |-> "Major version must be 26 or greater"]
        ELSE [data |-> d3, exc |-> ""]

After26_validateComponents(d) ==
    IF d.major < 26 THEN "Major version must be 26 or greater"
    ELSE IF d.minor < 0 THEN "Minor version cannot be negative"
    ELSE IF d.patch < 0 THEN "Patch version cannot be negative"
    ELSE ""

\* Version<VersionBefore26>::VersionData::parse.
Before26_parse(d, str) ==
    LET m == regex_match(str)
        g == m.groups
        d1 == [d EXCEPT !.minor = stoi(g[2]).val]
        d2 == [d1 EXCEPT !.patch = IF Len(g) = 3 THEN stoi(g[3]).val ELSE 0]
    IN  IF ~m.matched THEN [data |-> d, exc |-> "Invalid version format"]
        ELSE IF ~stoi(g[1]).ok THEN [data |-> d, exc |-> "out_of_range"]
        ELSE IF stoi(g[1]).val # 1 THEN [data |-> d, exc |-> "Major version must be 1"]
        ELSE IF ~stoi(g[2]).ok THEN [data |-> d, exc |-> "out_of_range"]
        ELSE IF Len(g) = 3 /\ ~stoi(g[3]).ok THEN [data |-> d1, exc |-> "out_of_range"]
        ELSE [data |-> d2, exc |-> ""]

Before26_validateComponents(d) ==
    IF d.minor < 0 THEN "Minor version cannot be negative"
    ELSE IF d.patch < 0 THEN "Patch version cannot be negative"
    ELSE ""

\* major(), minor(), patch().
major(d) == d.major
minor(d) == d.minor
patch(d) == d.patch

\* The strings handed to the constructors and to operator=(const String&).
VersionNumbers ==
    { <<"1">>, <<"2", "0">>, <<"2", "6">>, <<"2", "7">>,
      <<"9", "9", "9", "9", "9", "9", "9", "9", "9", "9">> }

RECURSIVE Dotted(_)
Dotted(fs) == IF Len(fs) = 1 THEN fs[1] ELSE fs[1] \o <<".">> \o Dotted(Tail(fs))

MalformedVersions ==
    { <<>>, <<"2", "6">>, <<"2", "6", ".">>, <<".", "1">>, <<"a", ".", "1">>,
      <<"2", "6", ".", ".", "1">>, <<"2", "6", ".", "1", "a">>, <<"-", "1", ".", "1">> }

VersionStrings ==
    {Dotted(fs) : fs \in UNION {[1..k -> VersionNumbers] : k \in 1..MaxFields}}
        \cup MalformedVersions

VersionIdle == UNCHANGED <<heap, loc, data, filepath, opened, files, text, res>>

\* The string handed to a Version<VersionBefore26>: text.
InitBefore26 ==
    /\ text \in VersionStrings
    /\ res = NoRes
    /\ heap = <<>>
    /\ loc = [x \in Locals |-> ConfigObject_None]
    /\ data = EmptyMap
    /\ filepath = nullopt
    /\ opened = FALSE
    /\ files = NoFiles
    /\ last = NoOp
    /\ version = NoVersion

\* Version<VersionAfter26> v(str);   replacing the object modelled; when the
\* constructor throws, no object comes to exist and the one held stays.
After26_Construct(str) ==
    LET r == After26_parse(VersionData_After26, str)
        exc == IF r.exc # "" THEN r.exc ELSE After26_validateComponents(r.data)
    IN  /\ version' = IF exc = "" THEN [version EXCEPT !.after26 = r.data] ELSE version
        /\ last' = [op |-> "Version", exc |-> exc]
        /\ VersionIdle

\* v = str;
After26_Assign(str) ==
    LET r == After26_parse(version.after26, str)
        exc == IF r.exc # "" THEN r.exc ELSE After26_validateComponents(r.data)
    IN  /\ version' = [version EXCEPT !.after26 = r.data]
        /\ last' = [op |-> "operator=", exc |-> exc]
        /\ VersionIdle

\* Version<VersionBefore26> v(str);
Before26_Construct(str) ==
    LET r == Before26_parse(VersionData_Before26, str)
        exc == IF r.exc # "" THEN r.exc ELSE Before26_validateComponents(r.data)
    IN  /\ version' = IF exc = "" THEN [version EXCEPT !.before26 = r.data] ELSE version
        /\ last' = [op |-> "Version", exc |-> exc]
        /\ VersionIdle

\* v = str;
Before26_Assign(str) ==
    LET r == Before26_parse(version.before26, str)
        exc == IF r.exc # "" THEN r.exc ELSE Before26_validateComponents(r.data)
    IN  /\ version' = [version EXCEPT !.before26 = r.data]
        /\ last' = [op |-> "operator=", exc |-> exc]
        /\ VersionIdle

InitVersion ==
    /\ heap = <<>>
    /\ loc = [x \in Locals |-> ConfigObject_None]
    /\ data = EmptyMap
    /\ filepath = nullopt
    /\ opened = FALSE
    /\ files = NoFiles
    /\ text = <<>>
    /\ res = NoRes
    /\ last = NoOp
    /\ version = NoVersion

NextAfter26 ==
    \/ \E str \in VersionStrings : After26_Construct(str)
    \/ \E str \in VersionStrings : After26_Assign(str)

SpecAfter26 == InitVersion /\ [][NextAfter26]_vars

NextBefore26 == Before26_Construct(text) \/ Before26_Assign(text)

SpecBefore26 == InitBefore26 /\ [][NextBefore26]_vars

\* C26: for Version<VersionAfter26>, major() >= 26 in every reachable state:
\* after default construction, after construction from a string, and after any
\* sequence of string assignments, the rejected ones included.
C26_MajorAtLeast26 == major(version.after26) >= 26

\* C26, its second half: a rejected assignment leaves major, minor and patch as
\* they were.
C26_RejectedKeeps ==
    [][\A str \in VersionStrings :
          After26_Assign(str) /\ last'.exc # "" => version'.after26 = version.after26
      ]_vars

\* What the code does: major() >= 26 after construction and after every
\* assignment that was accepted.
C26_AcceptedMajor == last.exc = "" => major(version.after26) >= 26

\* The numbers of a string that the pattern matches, each fitting an int.
Numbers(str) == [i \in 1..Len(regex_match(str).groups) |-> stoi(regex_match(str).groups[i]).val]

Fitting(str) ==
    /\ regex_match(str).matched
    /\ \A i \in 1..Len(regex_match(str).groups) : stoi(regex_match(str).groups[i]).ok

\* C27: Version<VersionBefore26> accepts the three-part form 1.minor.patch and
\* the two-part form minor.patch: a two-part string such as 20.1 is accepted and
\* gives minor() and patch() its two numbers.
C27_BothForms ==
    /\ last.op \in {"Version", "operator="}
    /\ Fitting(text)
    /\ Len(Numbers(text)) = 3 => Numbers(text)[1] = 1
    => /\ last.exc = ""
       /\ minor(version.before26) = Numbers(text)[Len(Numbers(text)) - 1]
       /\ patch(version.before26) = Numbers(text)[Len(Numbers(text))]

\* What the code does: the string is accepted exactly when its first number is
\* 1; 1.minor gives patch() = 0 and 1.minor.patch gives both.
C27_LeadingOne ==
    last.op \in {"Version", "operator="} /\ Fitting(text)
    => IF Numbers(text)[1] = 1
       THEN /\ last.exc = ""
            /\ minor(version.before26) = Numbers(text)[2]
            /\ patch(version.before26)
                  = IF Len(Numbers(text)) = 3 THEN Numbers(text)[3] ELSE 0
       ELSE last.exc = "Major version must be 1" /\ version = NoVersion

(***************************************************************************)
(* Values returned by get: a Document read with get, the Value returned    *)
(* being written through, and the Document saved.                          *)
(***************************************************************************)
\* a: {b: 1}   and   a: [1]
SharedTexts ==
    [p |-> <<"a", ":", " ", "{", "b", ":", " ", "1", "}", "\n">>,
     q |-> <<"a", ":", " ", "[", "1", "]", "\n">>]

\* The value set, and written through the Value returned.
SharedValues == {ConfigObject_ll(2)}

InitShared ==
    /\ heap = <<>>
    /\ loc = [x \in Locals |-> ConfigObject_None]
    /\ data = EmptyMap
    /\ filepath = nullopt
    /\ opened = FALSE
    /\ files = [path \in Paths |-> [exists |-> TRUE, content |-> SharedTexts[path]]]
    /\ text = <<>>
    /\ res = NoRes
    /\ last = NoOp
    /\ version = NoVersion

NextShared ==
    \/ \E path \in Paths : Open(path)
    \/ \E name \in Keys : Get(name)
    \/ \E name \in Keys, value \in SharedValues : Set(name, value)
    \/ \E k \in Keys, s \in SharedValues : AssignKey("x", k, s)
    \/ \E i \in Indices, s \in SharedValues : AssignAt("x", i, s)
    \/ \E path \in Paths : SaveAs(path)

SpecShared == InitShared /\ [][NextShared]_vars

\* The text that save writes for the mapping d over h.
DocText(h, d) == SaveLines(h, d, InOrder(DOMAIN d))

\* The step changed the tree under name, and with it (when saved is demanded)
\* the text that save writes.
Seen(name, saved) ==
    ~StructEq(heap, data[name], heap', data'[name]) /\ saved
        => DocText(heap', data') # DocText(heap, data)

\* Writing through the Value x that get returned: into the container it shares
\* with the Document under name, or, x being a scalar or None, into a container
\* of its own.
WriteThrough(saved) ==
    /\ \A name \in Keys, k \in Keys, s \in SharedValues :
          /\ name \in DOMAIN data /\ is_object(loc["x"]) /\ Shares(loc["x"], data[name])
          /\ AssignKey("x", k, s)
          => /\ at_key(heap', get(data', name).val, k) = [exc |-> "", val |-> s]
             /\ Seen(name, saved)
    /\ \A name \in Keys, i \in Indices, s \in SharedValues :
          /\ name \in DOMAIN data /\ is_array(loc["x"]) /\ Shares(loc["x"], data[name])
          /\ AssignAt("x", i, s)
          => /\ at_index(heap', get(data', name).val, i) = [exc |-> "", val |-> s]
             /\ Seen(name, saved)
    /\ \A k \in Keys, s \in SharedValues :
          ~IsContainer(loc["x"]) /\ AssignKey("x", k, s)
          => SameDoc(heap, data, heap', data') /\ DocText(heap', data') = DocText(heap, data)
    /\ \A i \in Indices, s \in SharedValues :
          ~IsContainer(loc["x"]) /\ AssignAt("x", i, s)
          => SameDoc(heap, data, heap', data') /\ DocText(heap', data') = DocText(heap, data)

\* C28: a Value returned by get(name) that holds an Object or Array shares its
\* container with the Document: a key inserted or an index assigned through it
\* changes what a later get(name) returns and what save writes; the same write
\* through a returned scalar or None Value leaves the Document unchanged.
C28_SharedWithDocument == [][WriteThrough(TRUE)]_vars

\* What the code does: the write is seen by a later get(name), and a write
\* through a scalar or None changes nothing in the Document.
C28_SharedView == [][WriteThrough(FALSE)]_vars

\* The key a was written through the Value that get("a") returned, and the
\* Document's Object under a holds it.
C28_Written ==
    /\ last.op = "AssignKey"
    /\ <<"a">> \in DOMAIN data
    /\ Shares(loc["x"], data[<<"a">>])
    /\ at_key(heap, data[<<"a">>], <<"a">>) = [exc |-> "", val |-> ConfigObject_ll(2)]

\* C29: in every state reached by open (successful, failing on the file or on
\* the parse), close, save, save(path), set, add and remove, is_open() is true
\* exactly when a file path is bound; so save() without an argument finds a path
\* exactly when is_open() is true.
C29_OpenIffBound ==
    /\ [](opened <=> filepath.has)
    /\ [][Running /\ Save => (last'.exc # "No filepath specified" <=> opened)]_vars

\* An open failed on an unreadable file while an earlier open's path is bound.
C29_Witness ==
    /\ last.op = "open" /\ last.exc = "Cannot open file"
    /\ opened /\ filepath.has

(***************************************************************************)
(* Keys through a save/open cycle: a Document holding scalars under keys   *)
(* of any characters is saved, and a fresh Document opens the file.        *)
(***************************************************************************)
CycleKeys ==
    { <<"a">>, <<"a", "-", "1">>, <<"a", " ", "b">>, <<"a", ":">>, <<"\"">>, <<"@">>,
      <<"/", "/">> }

CycleValues == {ConfigObject_ll(1), ConfigObject_string(<<"a">>)}

MaxKeys == 2

\* The Documents that set(name, value) calls build: at most MaxKeys keys.
CycleDocs ==
    UNION {[ks -> CycleValues] : ks \in {S \in SUBSET CycleKeys : Cardinality(S) \in 1..MaxKeys}}

InitCycle ==
    /\ data \in CycleDocs
    /\ heap = <<>>
    /\ loc = [x \in Locals |-> ConfigObject_None]
    /\ filepath = nullopt
    /\ opened = FALSE
    /\ files = NoFiles
    /\ text = <<>>
    /\ res = NoRes
    /\ last = NoOp
    /\ version = NoVersion

\* Config fresh; fresh.open(path);   the fresh Document is kept in res.
OpenFresh(path) ==
    /\ files[path].exists
    /\ ~res.done
    /\ LET r == parse_content(files[path].content, <<>>)
       IN  /\ res' = [done |-> TRUE, st |-> r.st, data |-> r.data, val |-> Blank,
                      heap |-> Release(r.heap, {r.data[k] : k \in DOMAIN r.data}),
                      tok |-> r.tok, out |-> <<>>]
           /\ last' = [op |-> "open",
                       exc |-> IF r.st = "ok" THEN ""
                               ELSE IF r.st = "error" THEN "Invalid number" ELSE "diverge"]
    /\ UNCHANGED <<heap, loc, data, filepath, opened, files, text, version>>

NextCycle ==
    \/ \E path \in Paths : SaveAs(path)
    \/ \E path \in Paths : OpenFresh(path)

SpecCycle == InitCycle /\ [][NextCycle]_vars

\* C30: top-level keys survive a save/open cycle: for a Document of scalars under
\* non-empty keys of any characters (spaces, colons, quotes and others outside
\* [A-Za-z0-9_-] included), save(p) followed by open(p) on a fresh Document gives
\* the same keys, each with an equal value.
C30_KeysSurvive ==
    res.done => res.st = "ok" /\ SameDoc(heap, data, res.heap, res.data)

\* What the code does: the keys made of letters, digits, _ and - only survive.
C30_BareKeys ==
    /\ res.done
    /\ \A k \in DOMAIN data :
          \A i \in 1..Len(k) : isalnum(k[i]) \/ k[i] \in {"_", "-"}
    => res.st = "ok" /\ SameDoc(heap, data, res.heap, res.data)

====
